---- MODULE Spec2Model ----
(***************************************************************************)
(* The Doclayer webhook receiver (supabase/functions/doclayer-webhook):    *)
(* signature verification, envelope parsing, audit logging, event routing  *)
(* and the per-family reconciliation of the Supabase tables.               *)
(*                                                                         *)
(* A request is a sequence of steps separated by the awaits of the serve   *)
(* handler; concurrent requests interleave at those awaits.  Each storage  *)
(* statement (insert, upsert, update) is one atomic step.                  *)
(***************************************************************************)
EXTENDS Integers, Sequences, FiniteSets, TLC

VARIABLES
    webhookSecret,      \* Deno.env DOCLAYER_WEBHOOK_SECRET ("" when unset)
    documents,          \* table doclayer_documents
    batches,            \* table doclayer_batches
    workflows,          \* table doclayer_workflows
    billing_alerts,     \* table doclayer_billing_alerts
    usage_reports,      \* table doclayer_usage_reports
    webhook_events,     \* table doclayer_webhook_events
    extractions,        \* table doclayer_extractions
    req,                \* the requests in flight, one per slot
    deliveries,         \* number of requests received so far
    failures,           \* number of storage statements that failed so far
    sigcase,            \* one application of verifySignature to drawn inputs
    hook,               \* a mounted React hook of lib/use-doclayer-realtime
    upload              \* the request of the upload-document function

vars == <<webhookSecret, documents, batches, workflows, billing_alerts,
          usage_reports, webhook_events, extractions, req,
          deliveries, failures, sigcase, hook, upload>>

\* what no request of the webhook receiver writes: its configuration, and
\* the state of the other programs
config == <<webhookSecret, hook, upload>>

entityTables == <<documents, batches, workflows, billing_alerts, usage_reports,
                  extractions>>

tables == <<entityTables, webhook_events>>

-----------------------------------------------------------------------------
(* Bounds of the model *)

\* extractions returned by one fetch
MaxExtractions == 1

\* storage statements that fail in one behaviour
MaxFailures == 1

\* requests received in one behaviour
MaxDeliveries == 2

\* length of a raw body in bytes
BodyLen == 2

-----------------------------------------------------------------------------
(* Strings are sequences of one-character strings; bytes are 0..255. *)

NULL == "NULL"

Str_sha256 == <<"s", "h", "a", "2", "5", "6", "=">>

HexDigits == <<"0", "1", "2", "3", "4", "5", "6", "7",
               "8", "9", "a", "b", "c", "d", "e", "f">>

\* Number.prototype.toString(16) of a byte: no leading zero
toString16(b) ==
    IF b < 16 THEN <<HexDigits[b + 1]>>
    ELSE <<HexDigits[(b \div 16) + 1], HexDigits[(b % 16) + 1]>>

\* String.prototype.padStart(2, "0")
padStart2(s) == IF Len(s) < 2 THEN <<"0">> \o s ELSE s

\* a hex rendering that drops the padStart
HexByteUnpadded(b) == toString16(b)

\* (b) => b.toString(16).padStart(2, "0")
HexByte(b) == padStart2(toString16(b))

RECURSIVE Join(_)
\* Array.prototype.join("")
Join(ss) == IF ss = <<>> THEN <<>> ELSE Head(ss) \o Join(Tail(ss))

\* Array.from(bytes).map(hex).join("")
HexEncode(bytes) == Join([i \in 1..Len(bytes) |-> HexByte(bytes[i])])

\* String.prototype.startsWith
startsWith(s, prefix) ==
    /\ Len(s) >= Len(prefix)
    /\ SubSeq(s, 1, Len(prefix)) = prefix

\* String.prototype.replace(pattern, "") with a string pattern: the first
\* occurrence is removed
replaceFirst(s, pat) ==
    LET occ == {i \in 1..(Len(s) - Len(pat) + 1) :
                    SubSeq(s, i, i + Len(pat) - 1) = pat}
    IN  IF occ = {} THEN s
        ELSE LET i == CHOOSE k \in occ : \A j \in occ : k <= j
             IN  SubSeq(s, 1, i - 1) \o SubSeq(s, i + Len(pat), Len(s))

\* SHA-256 digest length in bytes
DigestBytes == 32

\* crypto.subtle.sign("HMAC", key, message): an ideal MAC.  The digest has
\* DigestBytes bytes, depends on key and message, and distinct messages
\* shorter than the digest get distinct digests under the same key.
HmacSha256(key, msg) ==
    [i \in 1..DigestBytes |->
        LET m == IF i <= Len(msg) THEN msg[i]
                 ELSE IF i = DigestBytes THEN Len(msg) ELSE 0
            k == IF key = <<>> THEN 0 ELSE key[((i - 1) % Len(key)) + 1]
        IN  (m + k) % 256]

\* a verifier that accepts without the sha256= prefix check
verifySignatureNoPrefixCheck(payload, signature, secret) ==
    HexEncode(HmacSha256(secret, payload)) = replaceFirst(signature, Str_sha256)

\* verifySignature(payload, signature, secret)
verifySignature(payload, signature, secret) ==
    IF signature = <<>> \/ ~startsWith(signature, Str_sha256) THEN FALSE
    ELSE LET expectedSignature == replaceFirst(signature, Str_sha256)
             signatureBuffer   == HmacSha256(secret, payload)
             computedSignature == HexEncode(signatureBuffer)
         IN  computedSignature = expectedSignature

\* what the sender computes: 'sha256=' + hex(HMAC-SHA256(secret, body))
Sign(secret, body) == Str_sha256 \o HexEncode(HmacSha256(secret, body))

-----------------------------------------------------------------------------
(* Inputs *)

ByteVals == {0, 1, 16, 17}

RECURSIVE SeqsOfLen(_, _)
SeqsOfLen(S, n) ==
    IF n = 0 THEN {<<>>}
    ELSE {<<x>> \o s : x \in S, s \in SeqsOfLen(S, n - 1)}

\* raw bodies, as byte strings
Bodies == SeqsOfLen(ByteVals, BodyLen)

NoSecret == <<>>

-----------------------------------------------------------------------------
(* Values *)

\* a field absent from the JSON body (JavaScript undefined)
UNDEFINED == "undefined"

\* x-webhook-event / x-webhook-delivery / x-webhook-signature not sent
NoHeader == "no-header"

Ids == {"id_1", "id_2"}

Errors == {"err_1", "err_2"}

RoutingKeys ==
    {"document.processing.started", "document.processing.completed",
     "document.processing.failed",
     "batch.started", "batch.progress", "batch.completed", "batch.failed",
     "billing.credits.low", "billing.credits.exhausted", "billing.usage.report",
     "workflow.started", "workflow.completed", "workflow.failed",
     "test.ping"}

DataFields ==
    {"job_id", "document_id", "checksum", "insights_count",
     "confidence_metrics", "error", "error_type",
     "batch_id", "project_id", "total_documents", "completed", "failed", "successful",
     "duration_seconds",
     "current_balance", "threshold", "currency",
     "period_start", "period_end", "total_pages", "total_cost",
     "workflow_id", "workflow_type", "result", "timestamp"}

\* payload.data with the given fields present and every other field absent
Data(present) ==
    [f \in DataFields |-> IF f \in DOMAIN present THEN present[f] ELSE UNDEFINED]

\* a data object as the sender emits it: every event carries its timestamp
Event(present) == Data(present @@ [timestamp |-> "ts_1"])

\* the data objects the sender emits for an event type (interfaces, lines 14-119)
DataOf(t) ==
    CASE t = "document.processing.started" ->
            {Event([job_id |-> j, checksum |-> "chk_1"]) : j \in Ids}
      [] t = "document.processing.completed" ->
            {Event([job_id |-> "id_1", document_id |-> "doc_1",
                    insights_count |-> "3", confidence_metrics |-> "cm_1"]),
             Event([job_id |-> "id_2", insights_count |-> "3",
                    confidence_metrics |-> "cm_1"])}
      [] t = "document.processing.failed" ->
            {Event([job_id |-> "id_1", document_id |-> "doc_1", error |-> e,
                    error_type |-> "et_1"]) : e \in Errors}
            \cup {Event([job_id |-> "id_2", document_id |-> "doc_1",
                         error |-> "err_1", error_type |-> "et_1"])}
      [] t = "batch.started" ->
            {Event([batch_id |-> b, total_documents |-> "2"]) : b \in Ids}
      [] t = "batch.progress" ->
            {Event([batch_id |-> "id_1", completed |-> "1", failed |-> "0"])}
      [] t = "batch.completed" ->
            {Event([batch_id |-> "id_1", total_documents |-> "2",
                    successful |-> "2", failed |-> "0",
                    duration_seconds |-> "5"])}
      [] t = "batch.failed" ->
            {Event([batch_id |-> "id_1", error |-> "err_1", error_type |-> "et_1",
                    completed |-> "1"])}
      [] t = "billing.credits.low" ->
            {Event([current_balance |-> "5", threshold |-> "10",
                    currency |-> "USD"])}
      [] t = "billing.credits.exhausted" ->
            {Event([current_balance |-> "0", currency |-> "USD"])}
      [] t = "billing.usage.report" ->
            {Event([period_start |-> "p_0", period_end |-> "p_1",
                    total_documents |-> "2", total_pages |-> "4",
                    total_cost |-> "1", currency |-> "USD"])}
      [] t = "workflow.started" ->
            {Event([workflow_id |-> w, workflow_type |-> "wt_1"]) : w \in Ids}
      [] t = "workflow.completed" ->
            {Event([workflow_id |-> "id_1", workflow_type |-> "wt_1",
                    result |-> "res_1", duration_seconds |-> "5"])}
      [] t = "workflow.failed" ->
            {Event([workflow_id |-> "id_1", workflow_type |-> "wt_1",
                    error |-> "err_1", error_type |-> "et_1"])}
      [] OTHER -> {Event(<<>>)}

\* WebhookPayload: the parsed bodies, each with its event_type
Payloads ==
    UNION {{[event_type |-> t, data |-> d] : d \in DataOf(t)} :
              t \in RoutingKeys \cup {"document.archived"}}

\* a body that carries no event_type
UntypedPayload ==
    [event_type |-> UNDEFINED,
     data |-> Event([job_id |-> "id_1", document_id |-> "doc_1",
                     error |-> "err_2", error_type |-> "et_1"])]

\* a JSONB column holding no payload
NullPayload == [event_type |-> NULL, data |-> Data(<<>>)]

\* a parsed body with the x-webhook-event header sent along: no header, or
\* a header that overrides a body whose event_type is absent or differs
Envelopes ==
    {[header |-> NoHeader, payload |-> p] : p \in Payloads \cup {UntypedPayload}}
    \cup {[header |-> "document.processing.failed", payload |-> p] :
             p \in {UntypedPayload,
                    [event_type |-> "document.processing.started",
                     data |-> Event([job_id |-> "id_1", checksum |-> "chk_1"])],
                    [event_type |-> "batch.started",
                     data |-> Event([batch_id |-> "id_1",
                                     total_documents |-> "2"])]}}

\* values of the x-webhook-delivery header
DeliveryHeaders == {NoHeader, "dlv_1"}

-----------------------------------------------------------------------------
(* Storage: the statements supabase-js sends to Postgres.  A table is the    *)
(* sequence of its rows in insertion order; a row's position is its id.      *)

\* the clock read by NOW() and new Date(): it advances with every request
Now == deliveries

\* column defaults of doclayer_documents
DocumentDefaults ==
    [doclayer_job_id |-> NULL, doclayer_document_id |-> NULL, checksum |-> NULL,
     status |-> "pending", insights_count |-> "0", confidence_metrics |-> NULL,
     error_message |-> NULL, error_type |-> NULL, raw_payload |-> NullPayload,
     doclayer_created_at |-> NULL, updated_at |-> Now,
     filename |-> NULL, file_type |-> NULL, file_size_bytes |-> NULL,
     project_id |-> NULL, agent_template_id |-> NULL]

\* column defaults of doclayer_batches
BatchDefaults ==
    [batch_id |-> NULL, total_documents |-> "0", completed_count |-> "0",
     failed_count |-> "0", status |-> "pending", error_message |-> NULL,
     error_type |-> NULL, duration_seconds |-> NULL, raw_payload |-> NullPayload,
     project_id |-> NULL, started_at |-> NULL, completed_at |-> NULL,
     updated_at |-> Now]

\* column defaults of doclayer_workflows
WorkflowDefaults ==
    [workflow_id |-> NULL, workflow_type |-> NULL, document_id |-> NULL,
     status |-> "pending", result |-> NULL, error_message |-> NULL,
     error_type |-> NULL, duration_seconds |-> NULL, raw_payload |-> NullPayload,
     started_at |-> NULL, completed_at |-> NULL, updated_at |-> Now]

\* column defaults of doclayer_billing_alerts
BillingAlertDefaults ==
    [alert_type |-> NULL, current_balance |-> NULL, threshold |-> NULL,
     currency |-> "USD", acknowledged |-> FALSE, raw_payload |-> NullPayload]

\* column defaults of doclayer_usage_reports
UsageReportDefaults ==
    [period_start |-> NULL, period_end |-> NULL, total_documents |-> "0",
     total_pages |-> "0", total_cost |-> "0", currency |-> "USD",
     raw_payload |-> NullPayload]

\* column defaults of doclayer_webhook_events
WebhookEventDefaults ==
    [event_type |-> NULL, event_id |-> NULL, payload |-> NullPayload,
     processed |-> FALSE, processed_at |-> 0, error_message |-> NULL,
     signature_valid |-> FALSE]

\* the defaults of the table whose natural key is col
DefaultsByKey(col) ==
    CASE col = "doclayer_job_id" -> DocumentDefaults
      [] col = "batch_id" -> BatchDefaults
      [] col = "workflow_id" -> WorkflowDefaults
      [] OTHER -> WebhookEventDefaults

\* JSON.stringify of the object passed to insert/upsert/update drops the
\* properties whose value is undefined: those columns are not written
Defined(obj) == [c \in {k \in DOMAIN obj : obj[k] # UNDEFINED} |-> obj[c]]

\* the row with the written columns replaced
Merge(row, vals) ==
    [c \in DOMAIN row |-> IF c \in DOMAIN vals THEN vals[c] ELSE row[c]]

\* positions of the rows whose column col equals v
Matching(table, col, v) == {i \in 1..Len(table) : table[i][col] = v}

\* .insert(vals): a new row, the columns not written take their defaults
\* an insert that skips a row equal to one already stored
InsertOnce(table, vals, defaults) ==
    IF \E i \in 1..Len(table) : table[i] = Merge(defaults, vals) THEN table
    ELSE Append(table, Merge(defaults, vals))

\* an insert the storage acknowledges without storing the row
InsertNothing(table, vals, defaults) == table

\* an insert that skips a delivery already logged under the same event_id
\* with the same payload
InsertDeduplicated(table, vals, defaults) ==
    IF /\ "event_id" \in DOMAIN vals
       /\ \E i \in 1..Len(table) :
             table[i].event_id = vals.event_id /\ table[i].payload = vals.payload
    THEN table
    ELSE Append(table, Merge(defaults, vals))

\* supabase.from(..).insert(..)
Insert(table, vals, defaults) == Append(table, Merge(defaults, vals))

\* INSERT .. ON CONFLICT DO NOTHING: the first writer wins
UpsertIgnoresConflict(table, col, vals, defaults) ==
    IF Matching(table, col, vals[col]) # {} THEN table
    ELSE Append(table, Merge(defaults, vals))

\* an upsert that never takes the conflict branch
UpsertAlwaysInserts(table, col, vals, defaults) ==
    Append(table, Merge(defaults, vals))

\* an upsert that replaces the conflicting row: the columns not written go
\* back to their defaults
UpsertReplacesRow(table, col, vals, defaults) ==
    IF Matching(table, col, vals[col]) # {}
    THEN [i \in 1..Len(table) |->
            IF table[i][col] = vals[col] THEN Merge(defaults, vals)
            ELSE table[i]]
    ELSE Append(table, Merge(defaults, vals))

\* .upsert(vals, { onConflict: col }): INSERT .. ON CONFLICT (col) DO UPDATE,
\* col being UNIQUE: the row holding the key is updated in the written
\* columns, and a row is added when no row holds it
Upsert(table, col, vals, defaults) ==
    IF Matching(table, col, vals[col]) # {}
    THEN [i \in 1..Len(table) |->
            IF table[i][col] = vals[col] THEN Merge(table[i], vals) ELSE table[i]]
    ELSE Append(table, Merge(defaults, vals))

\* an update without its .eq filter
UpdateAllRows(table, col, v, vals) ==
    [i \in 1..Len(table) |-> Merge(table[i], vals)]

\* an update that adds the row when none matches
UpdateOrInsert(table, col, v, vals) ==
    IF Matching(table, col, v) # {}
    THEN [i \in 1..Len(table) |->
            IF table[i][col] = v THEN Merge(table[i], vals) ELSE table[i]]
    ELSE Append(table, Merge(DefaultsByKey(col), vals @@ [c \in {col} |-> v]))

\* .update(vals).eq(col, v): every matching row is updated, none is added
Update(table, col, v, vals) ==
    [i \in 1..Len(table) |->
        IF table[i][col] = v THEN Merge(table[i], vals) ELSE table[i]]

\* the BEFORE UPDATE triggers: every written row gets updated_at = NOW()
Touched(vals) == vals @@ [updated_at |-> Now]

-----------------------------------------------------------------------------
(* Requests *)

\* the request slots: two requests can be in flight at once
Reqs == {1, 2}

NoKey == ""

\* values of Deno.env DOCLAYER_API_KEY
ApiKeys == {NoKey, "key_1"}

\* the raw body the requests of the model carry
RequestBodies == {[i \in 1..BodyLen |-> IF i = 1 THEN 1 ELSE 16]}

\* another body, signed by the sender for another request
OtherBodies == {[i \in 1..BodyLen |-> IF i = 1 THEN 17 ELSE 0]}

\* the secret the sender signs with
SenderSecret == <<5, 9>>

\* values of the x-webhook-signature header sent with a body: none, the
\* signature of the body, its hex digest without the sha256= prefix, and the
\* signature of another body
SignatureHeaders ==
    [body \in RequestBodies |->
        {<<>>, Sign(SenderSecret, body),
         HexEncode(HmacSha256(SenderSecret, body))}
        \cup {Sign(SenderSecret, b) : b \in OtherBodies}]

\* no response body sent yet, or one that carries no event
NoResponse == [success |-> FALSE, event_type |-> "", delivery_id |-> ""]

\* the methods a request may carry
Methods == {"GET", "POST"}

\* a method check that lets every method through
NoMethodRejected(method) == FALSE

\* if (req.method !== "POST")
MethodRejected(method) == method # "POST"

\* an effective event type that prefers the body's event_type
BodyFirstEventType(header, payload) ==
    IF payload.event_type # UNDEFINED THEN payload.event_type ELSE header

\* req.headers.get("x-webhook-event") || payload.event_type
EffectiveEventType(header, payload) ==
    IF header # NoHeader THEN header ELSE payload.event_type

\* a delivery identifier that is left empty when the header is absent
DeliveryIdOrEmpty(header) == IF header # NoHeader THEN header ELSE ""

\* req.headers.get("x-webhook-delivery") || "unknown"
EffectiveDeliveryId(header) == IF header # NoHeader THEN header ELSE "unknown"

\* a fetch that is started whatever the key and the document identifier
FetchAlways(key, document_id) == TRUE

\* if (apiKey && data.document_id)
FetchWanted(key, document_id) == key # NoKey /\ document_id # UNDEFINED

\* a free slot
Idle ==
    [pc |-> "idle", method |-> "", rawBody |-> <<>>, signature |-> <<>>,
     parseable |-> FALSE, payload |-> NullPayload, eventType |-> UNDEFINED,
     hdrEvent |-> NoHeader, hdrDelivery |-> NoHeader, deliveryId |-> "",
     apiKey |-> NoKey,
     status |-> 0, response |-> NoResponse, steps |-> <<>>, fetched |-> 0,
     docRecord |-> 0, auditRow |-> 0]

\* the request moves on to the step at pc, having done step
Goto(r, pc, step) ==
    req' = [req EXCEPT ![r].pc = pc, ![r].steps = Append(@, step)]

\* return new Response(.., { status })
Respond(r, status, step) ==
    req' = [req EXCEPT ![r].pc = "done", ![r].status = status,
                       ![r].steps = Append(@, step)]

\* a handler that swallows the storage error of a Document Job write
DocumentWriteLogsOnly(r, error, next) ==
    Goto(r, next, IF error THEN "entity_error" ELSE "entity_write")

\* if (error) { console.error(..); throw error; } of the document handlers;
\* the throw is caught by the serve handler's catch, which answers 500
DocumentWrite(r, error, next) ==
    IF error THEN Respond(r, 500, "entity_error")
    ELSE Goto(r, next, "entity_write")

\* a secondary handler that rethrows its storage error
SecondaryWriteThrows(r, error) ==
    IF error THEN Respond(r, 500, "entity_error")
    ELSE Goto(r, "mark", "entity_write")

\* if (error) { console.error(..); } of the batch, billing and workflow
\* handlers: the error is logged and the handler returns
SecondaryWrite(r, error) ==
    Goto(r, "mark", IF error THEN "entity_error" ELSE "entity_write")

\* a storage statement may fail while the failure budget lasts
StorageOutcomes == IF failures < MaxFailures THEN BOOLEAN ELSE {TRUE}

\* the failure budget after a statement that succeeded or not
Spent(storageOk) == failures' = IF storageOk THEN failures ELSE failures + 1

\* a guard that verifies the signature whether or not a secret is configured
SignatureAlwaysRequired == TRUE

\* if (webhookSecret)
SignatureRequired == webhookSecret # NoSecret

\* if (webhookSecret) { .. if (!isValid) return 401 }
SignatureRejected(rawBody, signature) ==
    /\ SignatureRequired
    /\ ~verifySignature(rawBody, signature, webhookSecret)

\* a request arrives and takes the first free slot
Arrives(r) ==
    /\ req[r].pc \in {"idle", "done"}
    /\ \A q \in Reqs : q < r => req[q].pc \notin {"idle", "done"}
    /\ deliveries < MaxDeliveries
    /\ deliveries' = deliveries + 1

\* if (req.method !== "POST") return 405
RejectMethod(r) ==
    /\ Arrives(r)
    /\ \E method \in Methods :
          /\ MethodRejected(method)
          /\ req' = [req EXCEPT ![r] =
                        [Idle EXCEPT !.pc = "done", !.method = method,
                                     !.status = 405, !.steps = <<"method">>]]
    /\ UNCHANGED <<config, tables, failures, sigcase>>

\* a signature check that logs the rejected request before answering 401
RejectSignatureLogged(r) ==
    /\ Arrives(r)
    /\ \E body \in RequestBodies :
       \E sig \in SignatureHeaders[body] :
          /\ SignatureRejected(body, sig)
          /\ req' = [req EXCEPT ![r] =
                        [Idle EXCEPT !.pc = "done", !.method = "POST",
                                     !.rawBody = body, !.signature = sig,
                                     !.status = 401,
                                     !.steps = <<"method", "verify">>]]
          /\ webhook_events' =
                Insert(webhook_events, [event_id |-> "unknown"],
                       WebhookEventDefaults)
    /\ UNCHANGED <<config, entityTables, failures, sigcase>>

\* POST, a secret is configured and verifySignature(rawBody, ..) is false:
\* 401, before the body is parsed
RejectSignature(r) ==
    /\ Arrives(r)
    /\ \E method \in Methods, body \in RequestBodies, parseable \in BOOLEAN :
       \E sig \in SignatureHeaders[body] :
          /\ ~MethodRejected(method)
          /\ SignatureRejected(body, sig)
          /\ req' = [req EXCEPT ![r] =
                        [Idle EXCEPT !.pc = "done", !.method = method,
                                     !.rawBody = body, !.signature = sig,
                                     !.parseable = parseable, !.status = 401,
                                     !.steps = <<"method", "verify">>]]
    /\ UNCHANGED <<config, tables, failures, sigcase>>

\* a handler that parses the body before it checks the signature
RejectBodyBeforeVerify(r) ==
    /\ Arrives(r)
    /\ \E body \in RequestBodies :
       \E sig \in SignatureHeaders[body] :
          req' = [req EXCEPT ![r] =
                     [Idle EXCEPT !.pc = "done", !.method = "POST",
                                  !.rawBody = body, !.signature = sig,
                                  !.status = 500,
                                  !.steps = <<"method", "parse_error">>]]
    /\ UNCHANGED <<config, tables, failures, sigcase>>

\* a parser that yields an empty envelope for a body it cannot decode
RejectBodyContinues(r) ==
    /\ Arrives(r)
    /\ \E body \in RequestBodies :
       \E sig \in SignatureHeaders[body] :
          /\ ~SignatureRejected(body, sig)
          /\ req' = [req EXCEPT ![r] =
                        [Idle EXCEPT !.pc = "log", !.method = "POST",
                                     !.rawBody = body, !.signature = sig,
                                     !.deliveryId = "unknown",
                                     !.steps = <<"method",
                                                 IF SignatureRequired THEN "verify"
                                                 ELSE "skip_verify",
                                                 "parse_error">>]]
    /\ UNCHANGED <<config, tables, failures, sigcase>>

\* POST, the signature check passed or was skipped, JSON.parse(rawBody)
\* throws: the catch answers 500
RejectBody(r) ==
    /\ Arrives(r)
    /\ \E method \in Methods, body \in RequestBodies :
       \E sig \in SignatureHeaders[body] :
          /\ ~MethodRejected(method)
          /\ ~SignatureRejected(body, sig)
          /\ req' = [req EXCEPT ![r] =
                        [Idle EXCEPT !.pc = "done", !.method = method,
                                     !.rawBody = body, !.signature = sig,
                                     !.parseable = FALSE, !.status = 500,
                                     !.steps = <<"method",
                                                 IF SignatureRequired THEN "verify"
                                                 ELSE "skip_verify",
                                                 "parse_error">>]]
    /\ UNCHANGED <<config, tables, failures, sigcase>>

\* POST, the signature check passed or was skipped, the body parses:
\* eventType and deliveryId come from the headers, falling back to
\* payload.event_type and "unknown"
AcceptFrom(r, envelopes) ==
    /\ Arrives(r)
    /\ \E method \in Methods, body \in RequestBodies :
       \E sig \in SignatureHeaders[body] :
       \E envelope \in envelopes, hdrDelivery \in DeliveryHeaders :
          /\ ~MethodRejected(method)
          /\ ~SignatureRejected(body, sig)
          /\ req' = [req EXCEPT ![r] =
                        [Idle EXCEPT
                           !.pc = "log", !.method = method,
                           !.rawBody = body, !.signature = sig,
                           !.parseable = TRUE,
                           !.payload = envelope.payload,
                           !.hdrEvent = envelope.header,
                           !.eventType =
                               EffectiveEventType(envelope.header,
                                                  envelope.payload),
                           !.hdrDelivery = hdrDelivery,
                           !.deliveryId = EffectiveDeliveryId(hdrDelivery),
                           !.steps = <<"method",
                                       IF SignatureRequired THEN "verify"
                                       ELSE "skip_verify",
                                       "parse">>]]
    /\ UNCHANGED <<config, tables, failures, sigcase>>

\* a request arrives with any of the envelopes
Accept(r) == AcceptFrom(r, Envelopes)

\* an audit flag that is true only when a signature was verified
signatureValidWhenVerified == SignatureRequired

\* signature_valid: true, the literal of the audit insert
signatureValid == TRUE

\* an audit insert whose error is thrown to the catch of the serve handler
LogEventThrows(r) ==
    /\ req[r].pc = "log"
    /\ \E storageOk \in StorageOutcomes :
          LET vals == Defined([event_type |-> req[r].eventType,
                               event_id |-> req[r].deliveryId])
                      @@ [payload |-> req[r].payload,
                          signature_valid |-> signatureValid]
              error == ~storageOk \/ "event_type" \notin DOMAIN vals
          IN  /\ webhook_events' =
                    IF error THEN webhook_events
                    ELSE Insert(webhook_events, vals, WebhookEventDefaults)
              /\ req' = [req EXCEPT
                           ![r].pc = IF error THEN "done" ELSE "route",
                           ![r].status = IF error THEN 500 ELSE 0,
                           ![r].rawBody = <<>>, ![r].signature = <<>>,
                           ![r].auditRow = IF error THEN 0
                                           ELSE Len(webhook_events) + 1,
                           ![r].steps = Append(@, IF error THEN "audit_error"
                                                  ELSE "audit")]
              /\ Spent(storageOk)
    /\ UNCHANGED <<config, entityTables, deliveries, sigcase>>

\* Log the webhook event: the insert's result is not read.  The insert is
\* refused when event_type (NOT NULL) is undefined or the storage fails.
\* Nothing reads the raw body or the signature header after this point, and
\* the request no longer carries them.  auditRow is the position of the row
\* this request inserted (rows are appended and never removed), 0 for none.
LogEvent(r) ==
    /\ req[r].pc = "log"
    /\ \E storageOk \in StorageOutcomes :
          LET vals == Defined([event_type |-> req[r].eventType,
                               event_id |-> req[r].deliveryId])
                      @@ [payload |-> req[r].payload,
                          signature_valid |-> signatureValid]
              error == ~storageOk \/ "event_type" \notin DOMAIN vals
          IN  /\ webhook_events' =
                    IF error THEN webhook_events
                    ELSE Insert(webhook_events, vals, WebhookEventDefaults)
              /\ req' = [req EXCEPT
                           ![r].pc = "route",
                           ![r].rawBody = <<>>, ![r].signature = <<>>,
                           ![r].auditRow = IF error THEN 0
                                           ELSE Len(webhook_events) + 1,
                           ![r].steps = Append(@, IF error THEN "audit_error"
                                                  ELSE "audit")]
              /\ Spent(storageOk)
    /\ UNCHANGED <<config, entityTables, deliveries, sigcase>>

-----------------------------------------------------------------------------
(* Document handlers *)

\* the request at the routing switch with this effective event type
Routed(r, eventType) ==
    /\ req[r].pc = "route"
    /\ req[r].eventType = eventType

\* the storage refuses a write keyed by col: the key (NOT NULL) is not given,
\* or the storage fails
Refused(vals, col, storageOk) == ~storageOk \/ col \notin DOMAIN vals

handleProcessingStarted(r) ==
    /\ Routed(r, "document.processing.started")
    /\ \E storageOk \in StorageOutcomes :
          LET data  == req[r].payload.data
              vals  == Defined([doclayer_job_id |-> data.job_id,
                                checksum |-> data.checksum,
                                status |-> "processing",
                                doclayer_created_at |-> data.timestamp])
                       @@ [raw_payload |-> req[r].payload]
              error == Refused(vals, "doclayer_job_id", storageOk)
          IN  /\ documents' =
                    IF error THEN documents
                    ELSE Upsert(documents, "doclayer_job_id", Touched(vals),
                                DocumentDefaults)
              /\ DocumentWrite(r, error, "mark")
              /\ Spent(storageOk)
    /\ UNCHANGED <<config, batches, workflows, billing_alerts, usage_reports,
                   extractions, webhook_events, deliveries, sigcase>>

handleProcessingCompleted(r) ==
    /\ Routed(r, "document.processing.completed")
    /\ \E storageOk \in StorageOutcomes, key \in ApiKeys :
          LET data  == req[r].payload.data
              vals  == Defined([doclayer_job_id |-> data.job_id,
                                doclayer_document_id |-> data.document_id,
                                status |-> "completed",
                                insights_count |-> data.insights_count,
                                confidence_metrics |-> data.confidence_metrics])
                       @@ [raw_payload |-> req[r].payload, updated_at |-> Now]
              error == Refused(vals, "doclayer_job_id", storageOk)
              fetch == FetchWanted(key, data.document_id)
          IN  /\ documents' =
                    IF error THEN documents
                    ELSE Upsert(documents, "doclayer_job_id", Touched(vals),
                                DocumentDefaults)
              /\ IF error THEN Respond(r, 500, "entity_error")
                 ELSE req' = [req EXCEPT
                                ![r].pc = IF fetch THEN "fetch" ELSE "mark",
                                ![r].apiKey = key,
                                ![r].steps = Append(@, "entity_write")]
              /\ Spent(storageOk)
    /\ UNCHANGED <<config, batches, workflows, billing_alerts, usage_reports,
                   extractions, webhook_events, deliveries, sigcase>>

handleProcessingFailed(r) ==
    /\ Routed(r, "document.processing.failed")
    /\ \E storageOk \in StorageOutcomes :
          LET data  == req[r].payload.data
              vals  == Defined([doclayer_job_id |-> data.job_id,
                                doclayer_document_id |-> data.document_id,
                                status |-> "failed",
                                error_message |-> data.error,
                                error_type |-> data.error_type])
                       @@ [raw_payload |-> req[r].payload, updated_at |-> Now]
              error == Refused(vals, "doclayer_job_id", storageOk)
          IN  /\ documents' =
                    IF error THEN documents
                    ELSE Upsert(documents, "doclayer_job_id", Touched(vals),
                                DocumentDefaults)
              /\ DocumentWrite(r, error, "mark")
              /\ Spent(storageOk)
    /\ UNCHANGED <<config, batches, workflows, billing_alerts, usage_reports,
                   extractions, webhook_events, deliveries, sigcase>>

\* a fetch whose failure escapes fetchAndStoreExtractions
FetchFailsThrows(r) ==
    /\ req[r].pc = "fetch"
    /\ Respond(r, 500, "fetch_error")
    /\ UNCHANGED <<config, tables, deliveries, failures, sigcase>>

\* fetchAndStoreExtractions: fetch throws, or the response is not ok
FetchFails(r) ==
    /\ req[r].pc = "fetch"
    /\ Goto(r, "mark", "fetch_error")
    /\ UNCHANGED <<config, tables, deliveries, failures, sigcase>>

\* fetchAndStoreExtractions: the response is ok and lists n extractions
FetchReturns(r) ==
    /\ req[r].pc = "fetch"
    /\ \E n \in 0..MaxExtractions :
          req' = [req EXCEPT ![r].pc = "select", ![r].fetched = n,
                             ![r].steps = Append(@, "fetch")]
    /\ UNCHANGED <<config, tables, deliveries, failures, sigcase>>

\* fetchAndStoreExtractions: .select("id").eq("doclayer_job_id", jobId).single()
SelectDocument(r) ==
    /\ req[r].pc = "select"
    /\ \E storageOk \in StorageOutcomes :
          LET found == Matching(documents, "doclayer_job_id",
                                req[r].payload.data.job_id)
          IN  /\ IF storageOk /\ Cardinality(found) = 1
                 THEN req' = [req EXCEPT
                                ![r].pc = IF req[r].fetched > 0 THEN "insert"
                                          ELSE "mark",
                                ![r].docRecord = CHOOSE i \in found : TRUE,
                                ![r].steps = Append(@, "select")]
                 ELSE Goto(r, "mark", "select_error")
              /\ Spent(storageOk)
    /\ UNCHANGED <<config, tables, deliveries, sigcase>>

\* an insert that skips the extractions already stored for the document
InsertExtractionsDeduplicated(r) ==
    /\ req[r].pc = "insert"
    /\ \E storageOk \in StorageOutcomes :
          /\ extractions' =
                IF storageOk
                THEN extractions \o
                     SelectSeq([k \in 1..req[r].fetched |->
                                  [document_id |-> req[r].docRecord,
                                   extraction_key |-> k]],
                               LAMBDA row : \A i \in 1..Len(extractions) :
                                               extractions[i] # row)
                ELSE extractions
          /\ Goto(r, "mark", IF storageOk THEN "extractions"
                              ELSE "extractions_error")
          /\ Spent(storageOk)
    /\ UNCHANGED <<config, documents, batches, workflows, billing_alerts,
                   usage_reports, webhook_events, deliveries, sigcase>>

\* fetchAndStoreExtractions: .from("doclayer_extractions").insert(extractions)
InsertExtractions(r) ==
    /\ req[r].pc = "insert"
    /\ \E storageOk \in StorageOutcomes :
          /\ extractions' =
                IF storageOk
                THEN extractions \o
                     [k \in 1..req[r].fetched |->
                        [document_id |-> req[r].docRecord, extraction_key |-> k]]
                ELSE extractions
          /\ Goto(r, "mark", IF storageOk THEN "extractions"
                              ELSE "extractions_error")
          /\ Spent(storageOk)
    /\ UNCHANGED <<config, documents, batches, workflows, billing_alerts,
                   usage_reports, webhook_events, deliveries, sigcase>>

-----------------------------------------------------------------------------
(* Batch handlers *)

handleBatchStarted(r) ==
    /\ Routed(r, "batch.started")
    /\ \E storageOk \in StorageOutcomes :
          LET data  == req[r].payload.data
              vals  == Defined([batch_id |-> data.batch_id,
                                total_documents |-> data.total_documents,
                                project_id |-> data.project_id,
                                status |-> "processing",
                                started_at |-> data.timestamp])
                       @@ [raw_payload |-> req[r].payload]
              error == Refused(vals, "batch_id", storageOk)
          IN  /\ batches' =
                    IF error THEN batches
                    ELSE Upsert(batches, "batch_id", Touched(vals), BatchDefaults)
              /\ SecondaryWrite(r, error)
              /\ Spent(storageOk)
    /\ UNCHANGED <<config, documents, workflows, billing_alerts, usage_reports,
                   extractions, webhook_events, deliveries, sigcase>>

handleBatchProgress(r) ==
    /\ Routed(r, "batch.progress")
    /\ \E storageOk \in StorageOutcomes :
          LET data  == req[r].payload.data
              vals  == Defined([completed_count |-> data.completed,
                                failed_count |-> data.failed])
                       @@ [updated_at |-> Now]
          IN  /\ batches' =
                    IF ~storageOk THEN batches
                    ELSE Update(batches, "batch_id", data.batch_id, Touched(vals))
              /\ SecondaryWrite(r, ~storageOk)
              /\ Spent(storageOk)
    /\ UNCHANGED <<config, documents, workflows, billing_alerts, usage_reports,
                   extractions, webhook_events, deliveries, sigcase>>

handleBatchCompleted(r) ==
    /\ Routed(r, "batch.completed")
    /\ \E storageOk \in StorageOutcomes :
          LET data  == req[r].payload.data
              vals  == Defined([status |-> "completed",
                                completed_count |-> data.successful,
                                failed_count |-> data.failed,
                                duration_seconds |-> data.duration_seconds,
                                completed_at |-> data.timestamp])
                       @@ [raw_payload |-> req[r].payload, updated_at |-> Now]
          IN  /\ batches' =
                    IF ~storageOk THEN batches
                    ELSE Update(batches, "batch_id", data.batch_id, Touched(vals))
              /\ SecondaryWrite(r, ~storageOk)
              /\ Spent(storageOk)
    /\ UNCHANGED <<config, documents, workflows, billing_alerts, usage_reports,
                   extractions, webhook_events, deliveries, sigcase>>

handleBatchFailed(r) ==
    /\ Routed(r, "batch.failed")
    /\ \E storageOk \in StorageOutcomes :
          LET data  == req[r].payload.data
              vals  == Defined([status |-> "failed",
                                error_message |-> data.error,
                                error_type |-> data.error_type,
                                completed_count |-> data.completed])
                       @@ [raw_payload |-> req[r].payload, updated_at |-> Now]
          IN  /\ batches' =
                    IF ~storageOk THEN batches
                    ELSE Update(batches, "batch_id", data.batch_id, Touched(vals))
              /\ SecondaryWrite(r, ~storageOk)
              /\ Spent(storageOk)
    /\ UNCHANGED <<config, documents, workflows, billing_alerts, usage_reports,
                   extractions, webhook_events, deliveries, sigcase>>

-----------------------------------------------------------------------------
(* Billing handlers *)

handleBillingCreditsLow(r) ==
    /\ Routed(r, "billing.credits.low")
    /\ \E storageOk \in StorageOutcomes :
          LET data  == req[r].payload.data
              vals  == Defined([alert_type |-> "credits_low",
                                current_balance |-> data.current_balance,
                                threshold |-> data.threshold,
                                currency |-> data.currency])
                       @@ [raw_payload |-> req[r].payload]
          IN  /\ billing_alerts' =
                    IF ~storageOk THEN billing_alerts
                    ELSE Insert(billing_alerts, vals, BillingAlertDefaults)
              /\ SecondaryWrite(r, ~storageOk)
              /\ Spent(storageOk)
    /\ UNCHANGED <<config, documents, batches, workflows, usage_reports,
                   extractions, webhook_events, deliveries, sigcase>>

handleBillingCreditsExhausted(r) ==
    /\ Routed(r, "billing.credits.exhausted")
    /\ \E storageOk \in StorageOutcomes :
          LET data  == req[r].payload.data
              vals  == Defined([alert_type |-> "credits_exhausted",
                                current_balance |-> data.current_balance,
                                currency |-> data.currency])
                       @@ [raw_payload |-> req[r].payload]
          IN  /\ billing_alerts' =
                    IF ~storageOk THEN billing_alerts
                    ELSE Insert(billing_alerts, vals, BillingAlertDefaults)
              /\ SecondaryWrite(r, ~storageOk)
              /\ Spent(storageOk)
    /\ UNCHANGED <<config, documents, batches, workflows, usage_reports,
                   extractions, webhook_events, deliveries, sigcase>>

\* the insert is refused when period_start or period_end (NOT NULL) is absent
handleBillingUsageReport(r) ==
    /\ Routed(r, "billing.usage.report")
    /\ \E storageOk \in StorageOutcomes :
          LET data  == req[r].payload.data
              vals  == Defined([period_start |-> data.period_start,
                                period_end |-> data.period_end,
                                total_documents |-> data.total_documents,
                                total_pages |-> data.total_pages,
                                total_cost |-> data.total_cost,
                                currency |-> data.currency])
                       @@ [raw_payload |-> req[r].payload]
              error == \/ Refused(vals, "period_start", storageOk)
                       \/ Refused(vals, "period_end", storageOk)
          IN  /\ usage_reports' =
                    IF error THEN usage_reports
                    ELSE Insert(usage_reports, vals, UsageReportDefaults)
              /\ SecondaryWrite(r, error)
              /\ Spent(storageOk)
    /\ UNCHANGED <<config, documents, batches, workflows, billing_alerts,
                   extractions, webhook_events, deliveries, sigcase>>

-----------------------------------------------------------------------------
(* Workflow handlers *)

\* the upsert is refused when workflow_id or workflow_type (NOT NULL) is absent
handleWorkflowStarted(r) ==
    /\ Routed(r, "workflow.started")
    /\ \E storageOk \in StorageOutcomes :
          LET data  == req[r].payload.data
              vals  == Defined([workflow_id |-> data.workflow_id,
                                workflow_type |-> data.workflow_type,
                                document_id |-> data.document_id,
                                status |-> "running",
                                started_at |-> data.timestamp])
                       @@ [raw_payload |-> req[r].payload]
              error == \/ Refused(vals, "workflow_id", storageOk)
                       \/ Refused(vals, "workflow_type", storageOk)
          IN  /\ workflows' =
                    IF error THEN workflows
                    ELSE Upsert(workflows, "workflow_id", Touched(vals),
                                WorkflowDefaults)
              /\ SecondaryWrite(r, error)
              /\ Spent(storageOk)
    /\ UNCHANGED <<config, documents, batches, billing_alerts, usage_reports,
                   extractions, webhook_events, deliveries, sigcase>>

handleWorkflowCompleted(r) ==
    /\ Routed(r, "workflow.completed")
    /\ \E storageOk \in StorageOutcomes :
          LET data  == req[r].payload.data
              vals  == Defined([status |-> "completed",
                                result |-> data.result,
                                duration_seconds |-> data.duration_seconds,
                                completed_at |-> data.timestamp])
                       @@ [raw_payload |-> req[r].payload, updated_at |-> Now]
          IN  /\ workflows' =
                    IF ~storageOk THEN workflows
                    ELSE Update(workflows, "workflow_id", data.workflow_id,
                                Touched(vals))
              /\ SecondaryWrite(r, ~storageOk)
              /\ Spent(storageOk)
    /\ UNCHANGED <<config, documents, batches, billing_alerts, usage_reports,
                   extractions, webhook_events, deliveries, sigcase>>

handleWorkflowFailed(r) ==
    /\ Routed(r, "workflow.failed")
    /\ \E storageOk \in StorageOutcomes :
          LET data  == req[r].payload.data
              vals  == Defined([status |-> "failed",
                                error_message |-> data.error,
                                error_type |-> data.error_type])
                       @@ [raw_payload |-> req[r].payload, updated_at |-> Now]
          IN  /\ workflows' =
                    IF ~storageOk THEN workflows
                    ELSE Update(workflows, "workflow_id", data.workflow_id,
                                Touched(vals))
              /\ SecondaryWrite(r, ~storageOk)
              /\ Spent(storageOk)
    /\ UNCHANGED <<config, documents, batches, billing_alerts, usage_reports,
                   extractions, webhook_events, deliveries, sigcase>>

-----------------------------------------------------------------------------
(* The rest of the serve handler *)

\* case "test.ping": just acknowledge
\* a test.ping branch that answers at once
handleTestPingResponds(r) ==
    /\ Routed(r, "test.ping")
    /\ Respond(r, 200, "ping")
    /\ UNCHANGED <<config, tables, deliveries, failures, sigcase>>

handleTestPing(r) ==
    /\ Routed(r, "test.ping")
    /\ Goto(r, "mark", "ping")
    /\ UNCHANGED <<config, tables, deliveries, failures, sigcase>>

\* a default branch that raises an error for an unhandled event type
handleUnknownThrows(r) ==
    /\ req[r].pc = "route"
    /\ req[r].eventType \notin RoutingKeys
    /\ Respond(r, 500, "unhandled")
    /\ UNCHANGED <<config, tables, deliveries, failures, sigcase>>

\* default: console.log(`Unhandled event type: ..`)
handleUnknown(r) ==
    /\ req[r].pc = "route"
    /\ req[r].eventType \notin RoutingKeys
    /\ Goto(r, "mark", "unhandled")
    /\ UNCHANGED <<config, tables, deliveries, failures, sigcase>>

\* Mark webhook as processed, by event_id; the update's result is not read.
\* Then the 200 response.
MarkProcessed(r) ==
    /\ req[r].pc = "mark"
    /\ \E storageOk \in StorageOutcomes :
          /\ webhook_events' =
                IF ~storageOk THEN webhook_events
                ELSE Update(webhook_events, "event_id", req[r].deliveryId,
                            [processed |-> TRUE, processed_at |-> Now])
          /\ req' = [req EXCEPT
                       ![r].pc = "done", ![r].status = 200,
                       ![r].response =
                           [success |-> TRUE, event_type |-> req[r].eventType,
                            delivery_id |-> req[r].deliveryId],
                       ![r].steps = Append(@, IF storageOk THEN "mark"
                                              ELSE "mark_error")]
          /\ Spent(storageOk)
    /\ UNCHANGED <<config, entityTables, deliveries, sigcase>>

-----------------------------------------------------------------------------
(* The webhook receiver *)

\* no hook is mounted
Unmounted ==
    [mounted |-> "none", jobId |-> NULL, limit |-> 0,
     document |-> <<>>, previousStatusRef |-> NULL, documents |-> <<>>,
     isLoading |-> TRUE, error |-> FALSE, inflight |-> <<>>,
     channel |-> <<>>, called |-> {}, before |-> 0, changes |-> 0,
     fetches |-> 0]

\* a request to upload-document: its method, whether it carries an
\* Authorization header, whether supabase.auth.getUser() finds its user,
\* whether its body is form data, whether the form has a file and a
\* project_id, and the DOCLAYER_API_KEY it finds configured
NoRequest ==
    [method |-> "", authHeader |-> FALSE, user |-> FALSE, form |-> FALSE,
     file |-> FALSE, project_id |-> FALSE, apiKey |-> NoKey]

\* no request has reached upload-document: uploads counts the files sent to
\* Doclayer, inserts the tracking rows stored
NoUpload ==
    [pc |-> "idle", request |-> NoRequest, status |-> 0, error |-> "",
     job_id |-> NULL, uploads |-> 0, inserts |-> 0, steps |-> <<>>]

\* the inputs of the verifySignature check: none drawn
NoSigCase ==
    [body |-> <<>>, signed |-> <<>>, secret |-> <<>>, signature |-> <<>>,
     result |-> "none"]

Init ==
    /\ webhookSecret \in {NoSecret, SenderSecret}
    /\ documents = <<>>
    /\ batches = <<>>
    /\ workflows = <<>>
    /\ billing_alerts = <<>>
    /\ usage_reports = <<>>
    /\ webhook_events = <<>>
    /\ extractions = <<>>
    /\ req = [r \in Reqs |-> Idle]
    /\ deliveries = 0
    /\ failures = 0
    /\ sigcase = NoSigCase
    /\ hook = Unmounted
    /\ upload = NoUpload

\* a request arrives: the method check, the signature check and the parsing
\* of the body, none of which reads or writes a table
arrive(r) ==
    \/ RejectMethod(r)
    \/ RejectSignature(r)
    \/ RejectBody(r)
    \/ Accept(r)

\* the steps of a request that has been accepted: the audit insert, the
\* routed handler, the extraction fetch and the mark-processed update
handle(r) ==
    \/ LogEvent(r)
    \/ handleProcessingStarted(r)
    \/ handleProcessingCompleted(r)
    \/ handleProcessingFailed(r)
    \/ FetchFails(r)
    \/ FetchReturns(r)
    \/ SelectDocument(r)
    \/ InsertExtractions(r)
    \/ handleBatchStarted(r)
    \/ handleBatchProgress(r)
    \/ handleBatchCompleted(r)
    \/ handleBatchFailed(r)
    \/ handleBillingCreditsLow(r)
    \/ handleBillingCreditsExhausted(r)
    \/ handleBillingUsageReport(r)
    \/ handleWorkflowStarted(r)
    \/ handleWorkflowCompleted(r)
    \/ handleWorkflowFailed(r)
    \/ handleTestPing(r)
    \/ handleUnknown(r)
    \/ MarkProcessed(r)

\* serve(async (req) => ..): the steps of the request in slot r
serve(r) == arrive(r) \/ handle(r)

Next == \E r \in Reqs : serve(r)

Spec == Init /\ [][Next]_vars

\* The receiver taking one request at a time: a request arrives once the one
\* before it has been answered.
NextSerial == serve(1)

SpecSerial == Init /\ [][NextSerial]_vars

\* requests received in one behaviour of the receiver handling a request on
\* its own
MaxArrivals == 1

\* The receiver handling a request on its own, from its arrival to its
\* response.
NextOne ==
    \/ deliveries < MaxArrivals /\ arrive(1)
    \/ handle(1)

SpecOne == Init /\ [][NextOne]_vars

-----------------------------------------------------------------------------
(* verifySignature on its own: a body, a secret, and the signature the      *)
(* sender computed over a body of the same length with that secret          *)

Secrets == {<<5>>, <<255, 240>>}

InitSig ==
    /\ webhookSecret = NoSecret
    /\ documents = <<>>
    /\ batches = <<>>
    /\ workflows = <<>>
    /\ billing_alerts = <<>>
    /\ usage_reports = <<>>
    /\ webhook_events = <<>>
    /\ extractions = <<>>
    /\ req = [r \in Reqs |-> Idle]
    /\ deliveries = 0
    /\ failures = 0
    /\ hook = Unmounted
    /\ upload = NoUpload
    /\ \E body \in Bodies, signed \in Bodies, secret \in Secrets :
          sigcase = [body |-> body, signed |-> signed, secret |-> secret,
                     signature |-> Sign(secret, signed), result |-> "none"]

\* const isValid = await verifySignature(rawBody, signature, webhookSecret)
VerifyDrawn ==
    /\ sigcase.result = "none"
    /\ sigcase' = [sigcase EXCEPT !.result =
                      IF verifySignature(sigcase.body, sigcase.signature,
                                         sigcase.secret)
                      THEN "accepted" ELSE "rejected"]
    /\ UNCHANGED <<config, tables, req, deliveries, failures>>

NextSig == VerifyDrawn

SpecSig == InitSig /\ [][NextSig]_vars

-----------------------------------------------------------------------------
(* The receiver on a database that earlier requests have written: a batch   *)
(* and a workflow were started, and both requests were logged and marked.   *)

StartedBatchPayload ==
    [event_type |-> "batch.started",
     data |-> Event([batch_id |-> "id_1", total_documents |-> "2"])]

StartedWorkflowPayload ==
    [event_type |-> "workflow.started",
     data |-> Event([workflow_id |-> "id_1", workflow_type |-> "wt_1"])]

\* the row handleBatchStarted leaves for StartedBatchPayload
StartedBatch ==
    [BatchDefaults EXCEPT !.batch_id = "id_1", !.total_documents = "2",
                          !.status = "processing", !.started_at = "ts_1",
                          !.raw_payload = StartedBatchPayload,
                          !.updated_at = 0]

\* the row handleWorkflowStarted leaves for StartedWorkflowPayload
StartedWorkflow ==
    [WorkflowDefaults EXCEPT !.workflow_id = "id_1", !.workflow_type = "wt_1",
                             !.status = "running", !.started_at = "ts_1",
                             !.raw_payload = StartedWorkflowPayload,
                             !.updated_at = 0]

\* the audit record of an earlier request, logged and marked processed
Logged(payload) ==
    [WebhookEventDefaults EXCEPT !.event_type = payload.event_type,
                                 !.event_id = "dlv_0", !.payload = payload,
                                 !.processed = TRUE, !.signature_valid = TRUE]

InitReplay ==
    /\ webhookSecret \in {NoSecret, SenderSecret}
    /\ deliveries = 0
    /\ failures = MaxFailures
    /\ documents = <<>>
    /\ batches = <<StartedBatch>>
    /\ workflows = <<StartedWorkflow>>
    /\ billing_alerts = <<>>
    /\ usage_reports = <<>>
    /\ webhook_events = <<Logged(StartedBatchPayload),
                          Logged(StartedWorkflowPayload)>>
    /\ extractions = <<>>
    /\ req = [r \in Reqs |-> Idle]
    /\ sigcase = NoSigCase
    /\ hook = Unmounted
    /\ upload = NoUpload

\* the requests that follow are taken one at a time
SpecReplay == InitReplay /\ [][NextSerial]_vars

-----------------------------------------------------------------------------
(* The React hooks of lib/use-doclayer-realtime.ts.  A hook is mounted on   *)
(* the documents table: its effect has sent the initial fetch and has       *)
(* subscribed its channel.  The table is written by the other programs;     *)
(* every change is published to the channel when the subscription's filter  *)
(* lets it through, and the channel delivers in order.                      *)

\* changes of the documents table in one behaviour
MaxChanges == 3

\* calls of fetchDocument / fetchDocuments in one behaviour, the one of the
\* mount included
MaxFetches == 2

\* the largest value of the limit option
MaxLimit == 2

\* the statuses the programs of the repository write
WriterStatuses == {"processing", "completed", "failed"}

\* payload.new of a DELETE event: an object without properties
EmptyDocument ==
    [c \in DOMAIN DocumentDefaults |->
        IF c = "updated_at" THEN 0
        ELSE IF c = "raw_payload" THEN NullPayload ELSE UNDEFINED]

\* doc.id: a row is identified by its job identifier, unique as its id is
idOf(doc) == doc.doclayer_job_id

Min(a, b) == IF a <= b THEN a ELSE b

\* a slice that keeps the whole array
sliceAll(array, end) == array

\* Array.prototype.slice(0, end), end >= 0
slice0(array, end) == SubSeq(array, 1, Min(end, Len(array)))

\* .order('created_at', { ascending: false }): the newest row first
NewestFirst(table) == [i \in 1..Len(table) |-> table[Len(table) + 1 - i]]

\* the sequence without its k-th element
Without(seq, k) ==
    [i \in 1..(Len(seq) - 1) |-> IF i < k THEN seq[i] ELSE seq[i + 1]]

\* the filter of the mounted hook's subscription lets a change of the row
\* of this job through: useDocumentStatus filters on its jobId,
\* useDocumentList (no projectId, no status) does not filter
Subscribed(job) ==
    \/ hook.mounted = "useDocumentList"
    \/ hook.mounted = "useDocumentStatus" /\ job = hook.jobId

\* a change of the table is published to the channel
Publish(job, message) ==
    hook' = [hook EXCEPT
               !.changes = @ + 1,
               !.channel = IF Subscribed(job) THEN Append(@, message) ELSE @]

\* a program inserts the row of a job
RowInserted ==
    /\ hook.changes < MaxChanges
    /\ \E job \in Ids, s \in WriterStatuses :
          /\ Matching(documents, "doclayer_job_id", job) = {}
          /\ documents' = Insert(documents,
                                 [doclayer_job_id |-> job, status |-> s],
                                 DocumentDefaults)
          /\ Publish(job, [eventType |-> "INSERT",
                           new |-> documents'[Len(documents')],
                           old |-> NULL])
    /\ UNCHANGED <<webhookSecret, batches, workflows, billing_alerts,
                   usage_reports, webhook_events, extractions, req,
                   deliveries, failures, sigcase, upload>>

\* a program updates the row of a job; the status written may be the one
\* the row has
RowUpdated ==
    /\ hook.changes < MaxChanges
    /\ \E i \in 1..Len(documents), s \in WriterStatuses :
          /\ documents' = Update(documents, "doclayer_job_id",
                                 documents[i].doclayer_job_id,
                                 Touched([status |-> s]))
          /\ Publish(documents[i].doclayer_job_id,
                     [eventType |-> "UPDATE", new |-> documents'[i],
                      old |-> NULL])
    /\ UNCHANGED <<webhookSecret, batches, workflows, billing_alerts,
                   usage_reports, webhook_events, extractions, req,
                   deliveries, failures, sigcase, upload>>

\* a row is deleted
RowDeleted ==
    /\ hook.changes < MaxChanges
    /\ \E i \in 1..Len(documents) :
          /\ documents' = Without(documents, i)
          /\ Publish(documents[i].doclayer_job_id,
                     [eventType |-> "DELETE", new |-> EmptyDocument,
                      old |-> idOf(documents[i])])
    /\ UNCHANGED <<webhookSecret, batches, workflows, billing_alerts,
                   usage_reports, webhook_events, extractions, req,
                   deliveries, failures, sigcase, upload>>

\* what a step of a hook leaves unchanged
HookFrame ==
    UNCHANGED <<webhookSecret, tables, req, deliveries, failures, sigcase,
                upload>>

\* a query of the hook, sent and not yet run by the database
Sent == [state |-> "sent", data |-> <<>>, failed |-> FALSE]

\* fetchDocument / fetchDocuments is called (refetch): setIsLoading(true),
\* and the query is sent
Refetch(name) ==
    /\ hook.mounted = name
    /\ hook.fetches < MaxFetches
    /\ hook' = [hook EXCEPT !.fetches = @ + 1, !.isLoading = TRUE,
                            !.inflight = Append(@, Sent)]
    /\ HookFrame

\* the database runs a query of the hook: it answers data, or an error
QueryRuns(name, data, refused) ==
    /\ hook.mounted = name
    /\ \E k \in 1..Len(hook.inflight), storageOk \in BOOLEAN :
          /\ hook.inflight[k].state = "sent"
          /\ hook' = [hook EXCEPT !.inflight[k] =
                         IF storageOk /\ ~refused
                         THEN [state |-> "answered", data |-> data,
                               failed |-> FALSE]
                         ELSE [state |-> "answered", data |-> <<>>,
                               failed |-> TRUE]]
    /\ HookFrame

(* useDocumentStatus *)

refetchDocument == Refetch("useDocumentStatus")

\* .select('*').eq('doclayer_job_id', jobId).single(): an error unless
\* exactly one row matches
fetchDocumentQuery ==
    LET found == Matching(documents, "doclayer_job_id", hook.jobId)
    IN  QueryRuns("useDocumentStatus",
                  [i \in 1..Cardinality(found) |->
                      documents[CHOOSE j \in found : TRUE]],
                  Cardinality(found) # 1)

\* fetchDocument after its await: setDocument(data), setError(null), or
\* setError(err); finally setIsLoading(false)
fetchDocumentResolves ==
    /\ hook.mounted = "useDocumentStatus"
    /\ \E k \in 1..Len(hook.inflight) :
          LET answer == hook.inflight[k]
          IN  /\ answer.state = "answered"
              /\ hook' = [hook EXCEPT
                            !.inflight = Without(@, k),
                            !.document = IF answer.failed THEN @
                                         ELSE answer.data,
                            !.error = answer.failed,
                            !.isLoading = FALSE]
    /\ HookFrame

\* the postgres_changes callback of useDocumentStatus; called holds the
\* callbacks this run invoked
onDocumentChange ==
    /\ hook.mounted = "useDocumentStatus"
    /\ hook.channel # <<>>
    /\ LET payload == Head(hook.channel)
           newDoc  == payload.new
           changed == hook.previousStatusRef # newDoc.status
       IN  hook' = [hook EXCEPT
                      !.channel = Tail(@),
                      !.document = <<newDoc>>,
                      !.called =
                          IF ~changed THEN {}
                          ELSE {"onStatusChange"}
                               \cup (IF newDoc.status = "completed"
                                     THEN {"onComplete"}
                                     ELSE IF newDoc.status = "failed"
                                          THEN {"onError"} ELSE {}),
                      !.previousStatusRef =
                          IF changed THEN newDoc.status ELSE @]
    /\ HookFrame

\* useDocumentStatus is mounted for a job: the table holds no row of the
\* job, or its row
InitStatus ==
    /\ webhookSecret = NoSecret
    /\ deliveries = 0
    /\ failures = 0
    /\ documents \in {<<>>}
          \cup {<<[DocumentDefaults EXCEPT !.doclayer_job_id = "id_1",
                                           !.status = s]>> :
                   s \in WriterStatuses}
    /\ batches = <<>>
    /\ workflows = <<>>
    /\ billing_alerts = <<>>
    /\ usage_reports = <<>>
    /\ webhook_events = <<>>
    /\ extractions = <<>>
    /\ req = [r \in Reqs |-> Idle]
    /\ sigcase = NoSigCase
    /\ upload = NoUpload
    /\ hook = [Unmounted EXCEPT !.mounted = "useDocumentStatus",
                                !.jobId = "id_1", !.fetches = 1,
                                !.inflight = <<Sent>>]

NextStatus ==
    \/ RowInserted
    \/ RowUpdated
    \/ refetchDocument
    \/ fetchDocumentQuery
    \/ fetchDocumentResolves
    \/ onDocumentChange

SpecStatus == InitStatus /\ [][NextStatus]_vars

(* useDocumentList, with realtime on and neither projectId nor status *)

refetchDocuments == Refetch("useDocumentList")

\* .select('*').order('created_at', { ascending: false }).limit(limit)
fetchDocumentsQuery ==
    QueryRuns("useDocumentList",
              slice0(NewestFirst(documents), hook.limit), FALSE)

\* fetchDocuments after its await: setDocuments(data || []), setError(null),
\* or setError(err); finally setIsLoading(false)
fetchDocumentsResolves ==
    /\ hook.mounted = "useDocumentList"
    /\ \E k \in 1..Len(hook.inflight) :
          LET answer == hook.inflight[k]
          IN  /\ answer.state = "answered"
              /\ hook' = [hook EXCEPT
                            !.inflight = Without(@, k),
                            !.documents = IF answer.failed THEN @
                                          ELSE answer.data,
                            !.error = answer.failed,
                            !.isLoading = FALSE]
    /\ HookFrame

\* the postgres_changes callback of useDocumentList; called holds the type
\* of the event handled, before the length of the list it was applied to
onListChange ==
    /\ hook.mounted = "useDocumentList"
    /\ hook.channel # <<>>
    /\ LET payload == Head(hook.channel)
           prev    == hook.documents
       IN  hook' = [hook EXCEPT
                      !.channel = Tail(@),
                      !.called = {payload.eventType},
                      !.before = Len(prev),
                      !.documents =
                          CASE payload.eventType = "INSERT" ->
                                  slice0(<<payload.new>> \o prev, hook.limit)
                            [] payload.eventType = "UPDATE" ->
                                  [i \in 1..Len(prev) |->
                                      IF idOf(prev[i]) = idOf(payload.new)
                                      THEN payload.new ELSE prev[i]]
                            [] payload.eventType = "DELETE" ->
                                  SelectSeq(prev,
                                            LAMBDA doc :
                                               idOf(doc) # payload.old)
                            [] OTHER -> prev]
    /\ HookFrame

\* useDocumentList is mounted with a limit on an empty table
InitList ==
    /\ webhookSecret = NoSecret
    /\ deliveries = 0
    /\ failures = 0
    /\ documents = <<>>
    /\ batches = <<>>
    /\ workflows = <<>>
    /\ billing_alerts = <<>>
    /\ usage_reports = <<>>
    /\ webhook_events = <<>>
    /\ extractions = <<>>
    /\ req = [r \in Reqs |-> Idle]
    /\ sigcase = NoSigCase
    /\ upload = NoUpload
    /\ \E limit \in 1..MaxLimit :
          hook = [Unmounted EXCEPT !.mounted = "useDocumentList",
                                   !.limit = limit, !.fetches = 1,
                                   !.inflight = <<Sent>>]

NextList ==
    \/ RowInserted
    \/ RowUpdated
    \/ RowDeleted
    \/ refetchDocuments
    \/ fetchDocumentsQuery
    \/ fetchDocumentsResolves
    \/ onListChange

SpecList == InitList /\ [][NextList]_vars

-----------------------------------------------------------------------------
(* The upload-document function: one request, a sequence of steps separated *)
(* by the awaits of its serve handler.                                      *)

\* the requests that reach upload-document; a user is found only for a
\* request that carries an Authorization header
UploadRequests ==
    {q \in [method : {"OPTIONS", "POST"}, authHeader : BOOLEAN,
            user : BOOLEAN, form : BOOLEAN, file : BOOLEAN,
            project_id : BOOLEAN, apiKey : ApiKeys] :
        /\ q.user => q.authHeader
        /\ (q.file \/ q.project_id) => q.form}

\* return new Response(JSON.stringify({ error }), { status })
UploadResponds(status, error, steps) ==
    upload' = [upload EXCEPT !.pc = "done", !.status = status,
                             !.error = error, !.steps = @ \o steps]

\* the upload request moves on to the step at pc
UploadGoto(pc, steps) ==
    upload' = [upload EXCEPT !.pc = pc, !.steps = @ \o steps]

\* what a step of upload-document that writes no table leaves unchanged
UploadFrame ==
    UNCHANGED <<webhookSecret, tables, req, deliveries, failures, sigcase,
                hook>>

\* the request arrives: the CORS preflight is answered at once; a request
\* without Authorization header is answered 401
checkAuthorization ==
    /\ upload.pc = "idle"
    /\ IF upload.request.method = "OPTIONS"
       THEN UploadResponds(200, "", <<"options">>)
       ELSE IF ~upload.request.authHeader
            THEN UploadResponds(401, "Missing authorization header",
                                <<"authorization">>)
            ELSE UploadGoto("getUser", <<"authorization">>)
    /\ UploadFrame

\* await supabase.auth.getUser(): if (authError || !user) return 401
getUser ==
    /\ upload.pc = "getUser"
    /\ IF ~upload.request.user
       THEN UploadResponds(401, "Unauthorized", <<"getUser">>)
       ELSE UploadGoto("formData", <<"getUser">>)
    /\ UploadFrame

\* guards that look for the API key before they look at the form
FormGuardsKeyFirst(request) ==
    IF request.apiKey = NoKey
    THEN [status |-> 500, error |-> "Doclayer API key not configured",
          steps |-> <<"apiKey">>]
    ELSE IF ~request.file
    THEN [status |-> 400, error |-> "No file provided",
          steps |-> <<"apiKey", "file">>]
    ELSE IF ~request.project_id
    THEN [status |-> 400, error |-> "project_id is required",
          steps |-> <<"apiKey", "file", "project_id">>]
    ELSE [status |-> 0, error |-> "",
          steps |-> <<"apiKey", "file", "project_id">>]

\* the guards after formData(), in the order of the code: file, project_id,
\* DOCLAYER_API_KEY; status 0 when all of them pass
FormGuards(request) ==
    IF ~request.file
    THEN [status |-> 400, error |-> "No file provided", steps |-> <<"file">>]
    ELSE IF ~request.project_id
    THEN [status |-> 400, error |-> "project_id is required",
          steps |-> <<"file", "project_id">>]
    ELSE IF request.apiKey = NoKey
    THEN [status |-> 500, error |-> "Doclayer API key not configured",
          steps |-> <<"file", "project_id", "apiKey">>]
    ELSE [status |-> 0, error |-> "",
          steps |-> <<"file", "project_id", "apiKey">>]

\* await req.formData(), which throws for a body that is no form (the catch
\* answers 500), then the guards on the form and on the API key
parseForm ==
    /\ upload.pc = "formData"
    /\ IF ~upload.request.form
       THEN UploadResponds(500, "Upload failed", <<"formData_error">>)
       ELSE LET guard == FormGuards(upload.request)
            IN  IF guard.status # 0
                THEN UploadResponds(guard.status, guard.error,
                                    <<"formData">> \o guard.steps)
                ELSE UploadGoto("upload", <<"formData">> \o guard.steps)
    /\ UploadFrame

\* await doclayer.ingest.upload(..): Doclayer creates the job and answers
\* it, or the call throws and the catch answers 500
uploadToDoclayer ==
    /\ upload.pc = "upload"
    /\ \E accepted \in BOOLEAN :
          IF accepted
          THEN upload' = [upload EXCEPT !.pc = "insert", !.uploads = @ + 1,
                                        !.job_id = "id_1",
                                        !.steps = Append(@, "upload")]
          ELSE upload' = [upload EXCEPT !.pc = "done", !.status = 500,
                                        !.error = "Upload failed",
                                        !.steps = Append(@, "upload_error")]
    /\ UploadFrame

\* the row of the tracking insert
TrackingRow(job) ==
    [doclayer_job_id |-> job, filename |-> "file_1", file_type |-> "ft_1",
     file_size_bytes |-> "1", status |-> "processing",
     project_id |-> "proj_1", agent_template_id |-> NULL]

\* a tracking write that upserts on the job identifier
trackingUpsert ==
    /\ upload.pc = "insert"
    /\ \E storageOk \in StorageOutcomes :
          /\ documents' =
                IF ~storageOk THEN documents
                ELSE Upsert(documents, "doclayer_job_id",
                            TrackingRow(upload.job_id), DocumentDefaults)
          /\ upload' = [upload EXCEPT
                          !.pc = "done", !.status = 200,
                          !.inserts = IF ~storageOk THEN @ ELSE @ + 1,
                          !.steps = Append(@, IF ~storageOk THEN "insert_error"
                                              ELSE "insert")]
          /\ Spent(storageOk)
    /\ UNCHANGED <<webhookSecret, batches, workflows, billing_alerts,
                   usage_reports, extractions, webhook_events, req,
                   deliveries, sigcase, hook>>

\* await supabaseAdmin.from("doclayer_documents").insert(..): refused when
\* a row holds the job identifier (UNIQUE) or the storage fails; the result
\* is not read.  Then the 200 response with job.job_id.
trackingInsert ==
    /\ upload.pc = "insert"
    /\ \E storageOk \in StorageOutcomes :
          LET error == \/ ~storageOk
                       \/ Matching(documents, "doclayer_job_id",
                                   upload.job_id) # {}
          IN  /\ documents' =
                    IF error THEN documents
                    ELSE Insert(documents, TrackingRow(upload.job_id),
                                DocumentDefaults)
              /\ upload' = [upload EXCEPT
                              !.pc = "done", !.status = 200,
                              !.inserts = IF error THEN @ ELSE @ + 1,
                              !.steps = Append(@, IF error THEN "insert_error"
                                                  ELSE "insert")]
              /\ Spent(storageOk)
    /\ UNCHANGED <<webhookSecret, batches, workflows, billing_alerts,
                   usage_reports, extractions, webhook_events, req,
                   deliveries, sigcase, hook>>

\* upload-document alone, for every request; the table is empty or holds
\* the row a webhook event wrote for the job
InitGuards ==
    /\ webhookSecret = NoSecret
    /\ deliveries = 0
    /\ failures = 0
    /\ documents \in {<<>>,
                      <<[DocumentDefaults EXCEPT !.doclayer_job_id = "id_1",
                                                 !.status = "completed"]>>}
    /\ batches = <<>>
    /\ workflows = <<>>
    /\ billing_alerts = <<>>
    /\ usage_reports = <<>>
    /\ webhook_events = <<>>
    /\ extractions = <<>>
    /\ req = [r \in Reqs |-> Idle]
    /\ sigcase = NoSigCase
    /\ hook = Unmounted
    /\ \E request \in UploadRequests :
          upload = [NoUpload EXCEPT !.request = request]

NextGuards ==
    \/ checkAuthorization
    \/ getUser
    \/ parseForm
    \/ uploadToDoclayer
    \/ trackingInsert

SpecGuards == InitGuards /\ [][NextGuards]_vars

\* the envelopes of the document events
DocumentEnvelopes ==
    {e \in Envelopes :
        EffectiveEventType(e.header, e.payload)
           \in {"document.processing.started",
                "document.processing.completed",
                "document.processing.failed"}}

\* a document event arrives at the webhook receiver
AcceptDocumentEvent(r) == AcceptFrom(r, DocumentEnvelopes)

\* upload-document and the webhook receiver on one database: an upload that
\* passes every guard, and the document events of the receiver
InitUpload ==
    /\ webhookSecret = NoSecret
    /\ deliveries = 0
    /\ failures = MaxFailures
    /\ documents = <<>>
    /\ batches = <<>>
    /\ workflows = <<>>
    /\ billing_alerts = <<>>
    /\ usage_reports = <<>>
    /\ webhook_events = <<>>
    /\ extractions = <<>>
    /\ req = [r \in Reqs |-> Idle]
    /\ sigcase = NoSigCase
    /\ hook = Unmounted
    /\ upload = [NoUpload EXCEPT !.request =
                    [method |-> "POST", authHeader |-> TRUE, user |-> TRUE,
                     form |-> TRUE, file |-> TRUE, project_id |-> TRUE,
                     apiKey |-> "key_1"]]

NextUpload ==
    \/ NextGuards
    \/ \E r \in {1} :
          \/ AcceptDocumentEvent(r)
          \/ LogEvent(r)
          \/ handleProcessingStarted(r)
          \/ handleProcessingCompleted(r)
          \/ handleProcessingFailed(r)
          \/ FetchFails(r)
          \/ FetchReturns(r)
          \/ SelectDocument(r)
          \/ InsertExtractions(r)
          \/ MarkProcessed(r)

SpecUpload == InitUpload /\ [][NextUpload]_vars

-----------------------------------------------------------------------------
(* Vocabulary of the properties *)

Range(seq) == {seq[i] : i \in 1..Len(seq)}

Last(seq) == seq[Len(seq)]

DocumentEvents ==
    {"document.processing.started", "document.processing.completed",
     "document.processing.failed"}

SecondaryEvents ==
    {"batch.started", "batch.progress", "batch.completed", "batch.failed",
     "billing.credits.low", "billing.credits.exhausted", "billing.usage.report",
     "workflow.started", "workflow.completed", "workflow.failed"}

Terminal == {"completed", "failed", "cancelled"}

\* the request in slot r takes this step
Steps(r) == req'[r] # req[r]

\* the routed handler of request r runs in this step
Handles(r, eventTypes) ==
    /\ Steps(r)
    /\ req[r].pc = "route"
    /\ req[r].eventType \in eventTypes

\* the rows of documents for a job identifier
JobRows(table, job) == Matching(table, "doclayer_job_id", job)

\* no two rows of the table share a value of the key column
UniqueKey(table, col) ==
    \A i, k \in 1..Len(table) : table[i][col] = table[k][col] => i = k

-----------------------------------------------------------------------------
(* C1: when a document.processing.completed payload is applied to a job     *)
(* whose row already holds that same payload in status completed (its       *)
(* second delivery), no row is added: the documents table keeps exactly one *)
(* row for the job identifier, and that row is in status completed.         *)
C1_SecondCompletedUpdates ==
    [][\A r \in Reqs :
          LET job == req[r].payload.data.job_id
              delivered == {i \in JobRows(documents, job) :
                              /\ documents[i].raw_payload = req[r].payload
                              /\ documents[i].status = "completed"}
          IN  (/\ Handles(r, {"document.processing.completed"})
               /\ req'[r].status # 500
               /\ delivered # {})
              => /\ Len(documents') = Len(documents)
                 /\ Cardinality(JobRows(documents', job)) = 1
                 /\ \A i \in JobRows(documents', job) :
                       /\ documents'[i].status = "completed"
                       /\ documents'[i].raw_payload = req[r].payload]_vars

\* two deliveries of one completed payload, one after the other and both
\* applied, have left one row, in status completed
C1_Witness ==
    /\ deliveries = 2
    /\ failures = 0
    /\ req[2].pc = "idle"
    /\ req[1].status = 200
    /\ req[1].eventType = "document.processing.completed"
    /\ Len(webhook_events) = 2
    /\ webhook_events[1].event_type = "document.processing.completed"
    /\ webhook_events[1].payload = req[1].payload
    /\ webhook_events[2].payload = req[1].payload
    /\ Len(documents) = 1
    /\ documents[1].status = "completed"
    /\ documents[1].doclayer_job_id = req[1].payload.data.job_id

(* C2: in every reachable state no two rows of doclayer_documents share a   *)
(* job identifier, no two rows of doclayer_batches a batch identifier and   *)
(* no two rows of doclayer_workflows a workflow identifier.                 *)
C2_OneRowPerIdentifier ==
    /\ UniqueKey(documents, "doclayer_job_id")
    /\ UniqueKey(batches, "batch_id")
    /\ UniqueKey(workflows, "workflow_id")

\* a Document Job row created by a started event and updated by a later one
C2_Witness ==
    /\ Len(documents) = 1
    /\ documents[1].checksum = "chk_1"
    /\ documents[1].status \in {"completed", "failed"}
    /\ Len(webhook_events) = 2

(* C3: once a row of documents, batches or workflows has a terminal status  *)
(* (completed, failed, cancelled), no step moves that row's status to a     *)
(* non-terminal value.                                                      *)
C3_TerminalStaysTerminal ==
    [][/\ \A i \in 1..Len(documents) :
             documents[i].status \in Terminal
             => documents'[i].status \in Terminal
       /\ \A i \in 1..Len(batches) :
             batches[i].status \in Terminal => batches'[i].status \in Terminal
       /\ \A i \in 1..Len(workflows) :
             workflows[i].status \in Terminal
             => workflows'[i].status \in Terminal]_vars

(* C4: when document.processing.failed is applied to a job whose row is in  *)
(* status processing (a started event came before), the job's one row is in *)
(* status failed afterwards, with error_message equal to the event's error. *)
C4_StartedThenFailed ==
    [][\A r \in Reqs :
          LET data == req[r].payload.data
              started == {i \in JobRows(documents, data.job_id) :
                             documents[i].status = "processing"}
          IN  (/\ Handles(r, {"document.processing.failed"})
               /\ req'[r].status # 500
               /\ started # {})
              => /\ JobRows(documents', data.job_id) # {}
                 /\ \A i \in JobRows(documents', data.job_id) :
                       /\ documents'[i].status = "failed"
                       /\ data.error # UNDEFINED
                          => documents'[i].error_message = data.error]_vars

\* a row created by a started event, now failed and carrying the error of
\* the failed event that followed
C4_Witness ==
    \E r \in Reqs :
        /\ req[r].eventType = "document.processing.failed"
        /\ req[r].payload.event_type = "document.processing.failed"
        /\ req[r].status = 200
        /\ Len(documents) = 1
        /\ documents[1].checksum = "chk_1"
        /\ documents[1].status = "failed"
        /\ documents[1].error_message = req[r].payload.data.error
        /\ documents[1].error_message \in Errors

\* the request in slot r handles a completed or failed event of the table's
\* family for an identifier the table has no row for
HandlesUnknown(r, eventTypes, table, col, id) ==
    /\ Handles(r, eventTypes)
    /\ req[r].payload.data[id] # UNDEFINED
    /\ Matching(table, col, req[r].payload.data[id]) = {}

-----------------------------------------------------------------------------
\* a signature header that is missing, lacks the sha256= prefix or is not
\* the signature of the body under the configured secret
BadSignature(rawBody, signature) ==
    \/ signature = <<>>
    \/ ~startsWith(signature, Str_sha256)
    \/ signature # Sign(webhookSecret, rawBody)

\* a request arrives in slot r in this step
Arriving(r) ==
    /\ Steps(r)
    /\ deliveries' = deliveries + 1

(* C6: with a secret configured, a POST arriving with a signature header    *)
(* that is missing, lacks the sha256= prefix or does not match the HMAC of  *)
(* the raw body is answered 401 at once, and the step writes no table; the  *)
(* request takes no step after its response.                                *)
C6_BadSignatureRejected ==
    [][\A r \in Reqs :
          /\ (/\ Arriving(r)
              /\ req'[r].method = "POST"
              /\ webhookSecret # NoSecret
              /\ BadSignature(req'[r].rawBody, req'[r].signature))
             => /\ req'[r].status = 401
                /\ req'[r].pc = "done"
                /\ UNCHANGED tables
          /\ (req[r].status = 401 /\ Steps(r)) => Arriving(r)]_vars

\* a request answered 401 for the signature of another body, nothing written
C6_Witness ==
    \E r \in Reqs :
        /\ req[r].status = 401
        /\ req[r].signature # <<>>
        /\ startsWith(req[r].signature, Str_sha256)
        /\ req[r].signature # Sign(webhookSecret, req[r].rawBody)
        /\ webhook_events = <<>>
        /\ documents = <<>>

(* C7: verifySignature, given the signature 'sha256=' + hex(HMAC-SHA256)    *)
(* the sender computed with the secret over a signed body, accepts it for   *)
(* that body and rejects it for every body that differs from the signed one. *)
C7_SignatureRoundTrip ==
    sigcase.result # "none"
    => (sigcase.result = "accepted" <=> sigcase.body = sigcase.signed)

\* a signature rejected for a body that differs from the signed body in one
\* byte only
C7_Witness ==
    /\ sigcase.result = "rejected"
    /\ Len(sigcase.body) = Len(sigcase.signed)
    /\ Cardinality({i \in 1..Len(sigcase.body) :
                       sigcase.body[i] # sigcase.signed[i]}) = 1

(* C8: with no secret configured no request is ever answered 401, and every *)
(* POST whose body parses skips verification, is audit-logged and reaches   *)
(* the routing switch, whatever its signature header.                       *)
C8_NoSecretSkipsVerification ==
    webhookSecret = NoSecret
    => \A r \in Reqs :
          /\ req[r].status # 401
          /\ req[r].method = "POST" => req[r].steps[2] = "skip_verify"
          /\ (req[r].method = "POST" /\ req[r].parseable)
             => /\ req[r].steps[3] = "parse"
                /\ req[r].pc # "log"
                   => req[r].steps[4] \in {"audit", "audit_error"}
                /\ req[r].pc \notin {"log", "route"} => Len(req[r].steps) >= 5

\* no secret: one request accepted without a signature header, another with
\* the signature of another body
C8_Witness ==
    /\ webhookSecret = NoSecret
    /\ req[1].pc = "log"
    /\ req[1].signature = <<>>
    /\ req[2].pc = "log"
    /\ req[2].signature # <<>>
    /\ req[2].signature # Sign(SenderSecret, req[2].rawBody)

-----------------------------------------------------------------------------
\* the write of the routed handler of request r fails in this step: the
\* storage refuses it, or the key column is undefined
WriteFails(r, id) ==
    \/ failures' # failures
    \/ req[r].payload.data[id] = UNDEFINED

(* C9: when the Document Job write of document.processing.started,          *)
(* completed or failed fails, the request ends at once with 500 and no      *)
(* table is written; a request answered 500 has not executed the            *)
(* mark-processed update.                                                   *)
C9_DocumentFailureAborts ==
    /\ [][\A r \in Reqs :
             (Handles(r, DocumentEvents) /\ WriteFails(r, "job_id"))
             => /\ req'[r].pc = "done"
                /\ req'[r].status = 500
                /\ UNCHANGED tables]_vars
    /\ [](\A r \in Reqs :
             (req[r].status = 500 \/ (/\ req[r].eventType \in DocumentEvents
                                      /\ "entity_error" \in Range(req[r].steps)))
             => /\ "mark" \notin Range(req[r].steps)
                /\ "mark_error" \notin Range(req[r].steps)
                /\ req[r].pc = "done"
                /\ req[r].status = 500)

\* a document.processing.completed request whose write the storage refused
C9_Witness ==
    \E r \in Reqs :
        /\ req[r].status = 500
        /\ req[r].eventType = "document.processing.completed"
        /\ req[r].payload.data.job_id # UNDEFINED
        /\ Last(req[r].steps) = "entity_error"
        /\ documents = <<>>
        /\ Len(webhook_events) = 1
        /\ ~webhook_events[1].processed

(* C10: when the write of a batch, workflow, billing-alert or usage-report  *)
(* handler fails, the request goes on to the mark-processed update, and     *)
(* the request is answered 200 after that update.                           *)
C10_SecondaryFailureContinues ==
    /\ [][\A r \in Reqs :
             /\ (Handles(r, SecondaryEvents) /\ failures' # failures)
                => req'[r].pc = "mark" /\ req'[r].status = 0
             /\ (Steps(r) /\ req[r].pc = "mark")
                => /\ req'[r].pc = "done"
                   /\ req'[r].status = 200
                   /\ Last(req'[r].steps) \in {"mark", "mark_error"}]_vars
    /\ [](\A r \in Reqs :
             (/\ req[r].eventType \in SecondaryEvents
              /\ "entity_error" \in Range(req[r].steps))
             => /\ req[r].pc \in {"mark", "done"}
                /\ req[r].pc = "done"
                   => /\ req[r].status = 200
                      /\ Last(req[r].steps) \in {"mark", "mark_error"})

\* a billing.usage.report request whose insert the storage refused: no row,
\* the audit row marked processed, 200
C10_Witness ==
    \E r \in Reqs :
        /\ req[r].status = 200
        /\ req[r].eventType = "billing.usage.report"
        /\ "entity_error" \in Range(req[r].steps)
        /\ Last(req[r].steps) = "mark"
        /\ usage_reports = <<>>
        /\ Len(webhook_events) = 1
        /\ webhook_events[1].processed

-----------------------------------------------------------------------------
\* the request in slot r got past the method check, the signature check and
\* the parsing of its body
Parsed(r) ==
    /\ req[r].pc \notin {"idle"}
    /\ req[r].method = "POST"
    /\ req[r].parseable
    /\ req[r].status # 401

\* the audit row the request in slot r inserted, when it inserted one
AuditRecord(r) == webhook_events[req[r].auditRow]

(* C11: a request whose effective event type is not a routing key          *)
(* (document.archived, or no type at all) writes no entity table in its     *)
(* routing step nor in its mark-processed step, and is answered 200.        *)
C11_UnknownEventAcknowledged ==
    /\ [][\A r \in Reqs :
             (/\ Steps(r)
              /\ req[r].pc \in {"route", "mark"}
              /\ req[r].eventType \notin RoutingKeys)
             => /\ UNCHANGED entityTables
                /\ req[r].pc = "route" => req'[r].pc = "mark"
                /\ req[r].pc = "mark" => req'[r].status = 200]_vars
    /\ [](\A r \in Reqs :
             (Parsed(r) /\ req[r].pc = "done"
              /\ req[r].eventType \notin RoutingKeys)
             => req[r].status = 200)

\* a document.archived event answered 200, logged, no entity row anywhere
C11_Witness ==
    \E r \in Reqs :
        /\ req[r].eventType = "document.archived"
        /\ req[r].status = 200
        /\ "unhandled" \in Range(req[r].steps)
        /\ req[r].auditRow = 1
        /\ documents = <<>> /\ extractions = <<>> /\ batches = <<>>
        /\ billing_alerts = <<>> /\ usage_reports = <<>> /\ workflows = <<>>

(* C12: once a request with an unknown event type has been answered, the   *)
(* audit row it inserted has processed = false.                             *)
C12_UnknownLeftUnprocessed ==
    \A r \in Reqs :
        (/\ Parsed(r)
         /\ req[r].pc = "done"
         /\ req[r].eventType \notin RoutingKeys
         /\ req[r].auditRow # 0)
        => ~AuditRecord(r).processed

\* the audit row of the request in slot r is in the table and holds the
\* request's event type, delivery identifier and payload
AuditRecorded(r) ==
    /\ req[r].auditRow \in 1..Len(webhook_events)
    /\ AuditRecord(r).event_type = req[r].eventType
    /\ AuditRecord(r).event_id = req[r].deliveryId
    /\ AuditRecord(r).payload = req[r].payload

(* C13, as the specification states it: every request that got past the    *)
(* method check, the signature check and parsing has, from routing on, an   *)
(* audit row with its event type, delivery identifier and payload.          *)
C13_EveryParsedRequestAudited ==
    \A r \in Reqs : (Parsed(r) /\ req[r].pc # "log") => AuditRecorded(r)

(* C13, amended: every request that got past the method check, the         *)
(* signature check and parsing issues the audit insert as its next step,    *)
(* before routing; the insert is refused only when the event type is        *)
(* undefined or the storage fails; when it is not refused the row, with the *)
(* request's event type, delivery identifier and payload, is in the table   *)
(* from routing on, also once the request has returned 500; and no step     *)
(* removes an audit row or changes these three columns.                     *)
C13_AuditInsertPrecedesRouting ==
    /\ [](\A r \in Reqs :
             (Parsed(r) /\ req[r].pc # "log")
             => /\ req[r].steps[4] \in {"audit", "audit_error"}
                /\ req[r].steps[4] = "audit" => AuditRecorded(r)
                /\ req[r].steps[4] = "audit_error"
                   => req[r].eventType = UNDEFINED \/ failures > 0)
    /\ [][/\ Len(webhook_events') >= Len(webhook_events)
          /\ \A i \in 1..Len(webhook_events) :
                /\ webhook_events'[i].event_type = webhook_events[i].event_type
                /\ webhook_events'[i].event_id = webhook_events[i].event_id
                /\ webhook_events'[i].payload = webhook_events[i].payload]_vars

\* a document.processing.started request whose write failed: 500, and its
\* audit row is in the table
C13_Witness ==
    \E r \in Reqs :
        /\ req[r].status = 500
        /\ req[r].eventType = "document.processing.started"
        /\ Last(req[r].steps) = "entity_error"
        /\ AuditRecorded(r)
        /\ documents = <<>>

(* C14: the mark-processed step of a request sets processed on the audit    *)
(* row that request inserted and changes no other audit row.                *)
C14_MarkTouchesOwnRecordOnly ==
    [][\A r \in Reqs :
          (Steps(r) /\ req[r].pc = "mark")
          => /\ (req[r].auditRow # 0 /\ failures' = failures)
                => webhook_events'[req[r].auditRow].processed
             /\ \A i \in 1..Len(webhook_events) :
                   i # req[r].auditRow
                   => webhook_events'[i] = webhook_events[i]]_vars

(* C15, as the specification states it: every accepted delivery adds one    *)
(* audit row: the audit step of a request always lengthens the audit table  *)
(* by one.                                                                  *)
C15_OneRecordPerDelivery ==
    [][\A r \in Reqs :
          (Steps(r) /\ req[r].pc = "log")
          => Len(webhook_events') = Len(webhook_events) + 1]_vars

(* C15, amended: the audit step of a delivery whose insert is not refused   *)
(* (event type defined, storage up) adds exactly one row, also when a row   *)
(* with the same delivery identifier and payload is already there; a        *)
(* refused insert adds none; no other step changes the number of audit      *)
(* rows.                                                                    *)
C15_NoDeduplication ==
    [][/\ \A r \in Reqs :
             (Steps(r) /\ req[r].pc = "log")
             => Len(webhook_events') =
                   IF req[r].eventType # UNDEFINED /\ failures' = failures
                   THEN Len(webhook_events) + 1
                   ELSE Len(webhook_events)
       /\ Len(webhook_events') # Len(webhook_events)
          => \E r \in Reqs : Steps(r) /\ req[r].pc = "log"]_vars

\* a delivery and its retry, same delivery identifier and same payload, have
\* left two audit rows
C15_Witness ==
    /\ Len(webhook_events) = 2
    /\ webhook_events[1].event_id = "dlv_1"
    /\ webhook_events[2].event_id = "dlv_1"
    /\ webhook_events[1].payload = webhook_events[2].payload
    /\ webhook_events[1].event_type = webhook_events[2].event_type
    /\ \A r \in Reqs : req[r].pc \in {"idle", "done"}

(* C16: when routing fails and the request returns 500, the audit row of    *)
(* that request has its error_message set.                                  *)
C16_FailureTextRecorded ==
    \A r \in Reqs :
        (Parsed(r) /\ req[r].status = 500 /\ req[r].auditRow # 0)
        => AuditRecord(r).error_message # NULL

-----------------------------------------------------------------------------
\* the event type the headers and body of the request in slot r call for
HeaderOrBody(r) ==
    IF req[r].hdrEvent # NoHeader THEN req[r].hdrEvent
    ELSE req[r].payload.event_type

\* the status a document handler writes
WrittenStatus(eventType) ==
    CASE eventType = "document.processing.started" -> "processing"
      [] eventType = "document.processing.completed" -> "completed"
      [] eventType = "document.processing.failed" -> "failed"

(* C18: the effective event type of a parsed request is the x-webhook-event *)
(* header when present and the body's event_type otherwise; the audit row   *)
(* carries it, the 200 response carries it, and routing follows it: a       *)
(* handler write touches the documents table exactly when it is a document  *)
(* type, and then writes the status of that type.                           *)
C18_HeaderTakesPrecedence ==
    /\ [](\A r \in Reqs :
             Parsed(r)
             => /\ req[r].eventType = HeaderOrBody(r)
                /\ req[r].auditRow # 0
                   => AuditRecord(r).event_type = HeaderOrBody(r)
                /\ req[r].status = 200
                   => req[r].response.event_type = HeaderOrBody(r))
    /\ [][\A r \in Reqs :
             (/\ Steps(r)
              /\ req[r].pc = "route"
              /\ Last(req'[r].steps) = "entity_write")
             => IF HeaderOrBody(r) \in DocumentEvents
                THEN \A i \in JobRows(documents', req[r].payload.data.job_id) :
                        documents'[i].status = WrittenStatus(HeaderOrBody(r))
                ELSE documents' = documents]_vars

\* header document.processing.failed over a body labelled
\* document.processing.started: the row is failed, the audit row and the
\* response say failed
C18_Witness ==
    \E r \in Reqs :
        /\ req[r].hdrEvent = "document.processing.failed"
        /\ req[r].payload.event_type = "document.processing.started"
        /\ req[r].status = 200
        /\ req[r].response.event_type = "document.processing.failed"
        /\ req[r].auditRow = 1
        /\ AuditRecord(r).event_type = "document.processing.failed"
        /\ Len(documents) = 1
        /\ documents[1].status = "failed"
        /\ documents[1].raw_payload.event_type = "document.processing.started"

(* C19: a request whose method is not POST is answered 405 in its first     *)
(* step, which writes no table; it has done nothing but the method check:   *)
(* no signature check, no parsing, no audit row.                            *)
C19_NonPostRejected ==
    /\ [][\A r \in Reqs :
             (Arriving(r) /\ req'[r].method # "POST")
             => /\ req'[r].status = 405
                /\ req'[r].pc = "done"
                /\ UNCHANGED tables]_vars
    /\ [](\A r \in Reqs :
             (req[r].pc # "idle" /\ req[r].method # "POST")
             => /\ req[r].pc = "done"
                /\ req[r].status = 405
                /\ req[r].steps = <<"method">>
                /\ req[r].auditRow = 0
                /\ ~req[r].parseable)

\* a GET answered 405 while a secret is configured, nothing written
C19_Witness ==
    \E r \in Reqs :
        /\ req[r].method = "GET"
        /\ req[r].status = 405
        /\ webhookSecret # NoSecret
        /\ webhook_events = <<>>
        /\ documents = <<>>

(* C20: a POST whose signature check passed or was skipped and whose body   *)
(* does not parse is answered 500 in the step it arrives in, which writes   *)
(* no table; the request takes no further step and has no audit row.        *)
C20_ParseFailureAborts ==
    /\ [][\A r \in Reqs :
             (/\ Arriving(r)
              /\ req'[r].method = "POST"
              /\ ~req'[r].parseable
              /\ ~SignatureRejected(req'[r].rawBody, req'[r].signature))
             => /\ req'[r].status = 500
                /\ req'[r].pc = "done"
                /\ UNCHANGED tables]_vars
    /\ [](\A r \in Reqs :
             "parse_error" \in Range(req[r].steps)
             => /\ req[r].pc = "done"
                /\ req[r].status = 500
                /\ Len(req[r].steps) = 3
                /\ req[r].auditRow = 0)

\* a correctly signed POST with an unparseable body: 500, nothing written
C20_Witness ==
    \E r \in Reqs :
        /\ webhookSecret # NoSecret
        /\ req[r].status = 500
        /\ ~req[r].parseable
        /\ req[r].signature = Sign(webhookSecret, req[r].rawBody)
        /\ Last(req[r].steps) = "parse_error"
        /\ webhook_events = <<>>
        /\ documents = <<>>

-----------------------------------------------------------------------------
\* the steps a failure inside fetchAndStoreExtractions leaves in the history
FetchFailures == {"fetch_error", "select_error", "extractions_error"}

\* the request in slot r ended on an error that reached the catch
Thrown(r) ==
    \/ Last(req[r].steps) = "parse_error"
    \/ req[r].eventType \in DocumentEvents /\ Last(req[r].steps) = "entity_error"

(* C21: the step that ends routing without a thrown error answers 200 with  *)
(* success = true, the effective event type (header, else body) and the     *)
(* delivery identifier: the x-webhook-delivery header, or 'unknown' when    *)
(* the header is absent; every parsed request that ended without a thrown   *)
(* error has that response.                                                 *)
C21_SuccessResponse ==
    \A r \in Reqs :
        (Parsed(r) /\ req[r].pc = "done" /\ ~Thrown(r))
        => /\ req[r].status = 200
           /\ req[r].response.success
           /\ req[r].response.event_type = HeaderOrBody(r)
           /\ req[r].response.delivery_id =
                 IF req[r].hdrDelivery = NoHeader THEN "unknown"
                 ELSE req[r].hdrDelivery

\* two answered requests, one sent with a delivery header and one without
C21_Witness ==
    /\ req[1].status = 200
    /\ req[1].hdrDelivery = "dlv_1"
    /\ req[1].response.delivery_id = "dlv_1"
    /\ req[2].status = 200
    /\ req[2].hdrDelivery = NoHeader
    /\ req[2].response.delivery_id = "unknown"
    /\ req[2].response.event_type = "batch.progress"

(* C22: a POST that got past the signature check is answered 500 only when  *)
(* its body does not parse or its Document Job write fails; every other     *)
(* parsed request that has ended was answered 200, also after a failed      *)
(* audit insert, a failed secondary write, a failed extraction fetch or a   *)
(* failed mark-processed update.                                            *)
C22_OnlyTwoFailuresSurface ==
    \A r \in Reqs :
        /\ req[r].status = 500 => Thrown(r)
        /\ (Parsed(r) /\ req[r].pc = "done" /\ ~Thrown(r))
           => req[r].status = 200
        /\ (Parsed(r) /\ req[r].pc # "done") => req[r].status = 0

\* a completed event answered 200 after its extraction fetch failed and its
\* mark-processed update was refused
C22_Witness ==
    \E r \in Reqs :
        /\ req[r].status = 200
        /\ req[r].eventType = "document.processing.completed"
        /\ "fetch_error" \in Range(req[r].steps)
        /\ Last(req[r].steps) = "mark_error"
        /\ failures = 1

(* C23: a step of fetchAndStoreExtractions never throws and never writes    *)
(* the documents or the audit table, whatever fails in it; a request in     *)
(* which the fetch, the look-up of the parent row or the extraction insert  *)
(* failed goes on to the mark-processed update and is answered 200, and its *)
(* audit row is processed once that update went through.                    *)
C23_FetchFailureSwallowed ==
    /\ [][\A r \in Reqs :
             (Steps(r) /\ req[r].pc \in {"fetch", "select", "insert"})
             => /\ req'[r].pc \in {"select", "insert", "mark"}
                /\ req'[r].status = 0
                /\ documents' = documents
                /\ webhook_events' = webhook_events]_vars
    /\ [](\A r \in Reqs :
             (req[r].pc = "done" /\ Range(req[r].steps) \cap FetchFailures # {})
             => /\ req[r].status = 200
                /\ Last(req[r].steps) \in {"mark", "mark_error"}
                /\ (Last(req[r].steps) = "mark" /\ req[r].auditRow # 0)
                   => AuditRecord(r).processed)

\* the parent row could not be read: 200 all the same, the row completed,
\* the audit row processed
C23_Witness ==
    \E r \in Reqs :
        /\ req[r].status = 200
        /\ "select_error" \in Range(req[r].steps)
        /\ req[r].auditRow = 1
        /\ AuditRecord(r).processed
        /\ Len(documents) = 1
        /\ documents[1].status = "completed"
        /\ extractions = <<>>

(* C24: while the extraction fetch of a document.processing.completed       *)
(* request is outstanding (issued, not yet returned), the request can take  *)
(* its mark-processed step and answer: that step does not wait for the      *)
(* fetch.                                                                   *)
C24_FetchDoesNotBlock ==
    \A r \in Reqs : req[r].pc = "fetch" => ENABLED MarkProcessed(r)

-----------------------------------------------------------------------------
(* C25: two requests for one job identifier may be in flight together, and  *)
(* each write of a document handler, whatever the other request has done,   *)
(* leaves exactly one row for its job identifier, with the status that      *)
(* handler writes; the documents table changes in no other step, so the     *)
(* status of the row is that of the write applied last.                     *)
C25_LastWriterWins ==
    [][/\ \A r \in Reqs :
             (Handles(r, DocumentEvents) /\ req'[r].status # 500)
             => LET job == req[r].payload.data.job_id
                IN  /\ Cardinality(JobRows(documents', job)) = 1
                    /\ \A i \in JobRows(documents', job) :
                          documents'[i].status = WrittenStatus(req[r].eventType)
                    /\ \A i \in 1..Len(documents) :
                          documents[i].doclayer_job_id # job
                          => documents'[i] = documents[i]
       /\ documents' # documents
          => \E r \in Reqs : Handles(r, DocumentEvents)]_vars

\* two requests for job id_1 were in flight together; the started event
\* arrived first and was applied last: one row, in status processing
C25_Witness ==
    /\ req[1].eventType = "document.processing.started"
    /\ req[2].eventType = "document.processing.failed"
    /\ req[1].payload.data.job_id = "id_1"
    /\ req[2].payload.data.job_id = "id_1"
    /\ req[2].pc = "done" /\ req[2].status = 200
    /\ req[1].pc = "mark"
    /\ Len(documents) = 1
    /\ documents[1].status = "processing"
    /\ documents[1].error_message \in Errors

\* the steps a routed handler leaves in the history of its request
HandlerSteps == {"entity_write", "entity_error", "ping", "unhandled"}

(* C26: the history of every parsed request is: method check, signature     *)
(* check (or its skip), parse, audit insert, routed handler, then the       *)
(* mark-processed update last, followed by the 200 response alone; an       *)
(* entity table is written only by a request that has issued its audit      *)
(* insert, and the audit table is marked only by a request whose handler    *)
(* has returned.                                                            *)
C26_StepOrder ==
    /\ [](\A r \in Reqs :
             Parsed(r)
             => /\ req[r].steps[1] = "method"
                /\ req[r].steps[2] \in {"verify", "skip_verify"}
                /\ req[r].steps[3] = "parse"
                /\ Len(req[r].steps) >= 4
                   => req[r].steps[4] \in {"audit", "audit_error"}
                /\ Len(req[r].steps) >= 5 => req[r].steps[5] \in HandlerSteps
                /\ \A i \in 1..Len(req[r].steps) :
                      req[r].steps[i] \in {"mark", "mark_error"}
                      => i = Len(req[r].steps) /\ i > 5
                /\ req[r].status = 200
                   <=> Last(req[r].steps) \in {"mark", "mark_error"})
    /\ [][\A r \in Reqs :
             Steps(r)
             => /\ entityTables' # entityTables
                   => /\ req[r].pc \in {"route", "insert"}
                      /\ Len(req[r].steps) >= 4
                /\ (\E i \in 1..Len(webhook_events) :
                       webhook_events'[i] # webhook_events[i])
                   => /\ req[r].pc = "mark"
                      /\ req[r].steps[5] \in HandlerSteps]_vars

\* a completed event with an extraction fetch, every step taken in order
C26_Witness ==
    \E r \in Reqs :
        /\ req[r].steps = <<"method", "verify", "parse", "audit", "entity_write",
                            "fetch", "select", "extractions", "mark">>
        /\ req[r].status = 200
        /\ Len(extractions) = 1

-----------------------------------------------------------------------------
(* C27: with a secret configured, a POST arriving with an invalid signature *)
(* is answered 401 whether its body parses or not; a request answered 500   *)
(* for a body that does not parse carried a valid signature: the signature  *)
(* is checked, on the raw body, before the body is parsed.                  *)
C27_VerifyBeforeParse ==
    /\ [][\A r \in Reqs :
             (/\ Arriving(r)
              /\ req'[r].method = "POST"
              /\ webhookSecret # NoSecret
              /\ req'[r].signature # Sign(webhookSecret, req'[r].rawBody))
             => req'[r].status = 401 /\ req'[r].steps = <<"method", "verify">>]_vars
    /\ [](\A r \in Reqs :
             (webhookSecret # NoSecret /\ req[r].status = 500)
             => /\ "verify" \in Range(req[r].steps)
                /\ Last(req[r].steps) = "parse_error"
                   => /\ req[r].steps = <<"method", "verify", "parse_error">>
                      /\ req[r].signature = Sign(webhookSecret, req[r].rawBody))

\* an invalid signature on a body that does not parse: 401, not 500
C27_Witness ==
    \E r \in Reqs :
        /\ webhookSecret # NoSecret
        /\ req[r].status = 401
        /\ ~req[r].parseable
        /\ req[r].signature # <<>>
        /\ req[r].signature # Sign(webhookSecret, req[r].rawBody)

\* the columns of a batch row other than the counters and the update time
BatchFrame ==
    DOMAIN BatchDefaults \ {"completed_count", "failed_count", "updated_at"}

(* C28: a batch.progress step changes, in the rows with the event's batch   *)
(* identifier, only completed_count, failed_count and updated_at, setting   *)
(* the counters to the event's; it changes no other row and no other        *)
(* table, adds no row, and with no matching row changes nothing; the        *)
(* request goes on to the mark-processed update and is answered 200.        *)
C28_ProgressUpdatesCountersOnly ==
    /\ [][\A r \in Reqs :
             Handles(r, {"batch.progress"})
             => LET data == req[r].payload.data
                IN  /\ Len(batches') = Len(batches)
                    /\ \A i \in 1..Len(batches) :
                          IF batches[i].batch_id = data.batch_id
                          THEN /\ \A c \in BatchFrame :
                                     batches'[i][c] = batches[i][c]
                               /\ failures' = failures
                                  => /\ batches'[i].completed_count
                                           = data.completed
                                     /\ batches'[i].failed_count = data.failed
                          ELSE batches'[i] = batches[i]
                    /\ Matching(batches, "batch_id", data.batch_id) = {}
                       => batches' = batches
                    /\ UNCHANGED <<documents, workflows, billing_alerts,
                                   usage_reports, extractions, webhook_events>>
                    /\ req'[r].pc = "mark"]_vars
    /\ [](\A r \in Reqs :
             (req[r].eventType = "batch.progress" /\ req[r].pc = "done")
             => req[r].status = 200)

\* a progress event applied to a started batch: the counters of the row are
\* the event's, its status is still processing
C28_Witness ==
    \E r \in Reqs :
        /\ req[r].eventType = "batch.progress"
        /\ req[r].status = 200
        /\ Len(batches) = 1
        /\ batches[1].batch_id = req[r].payload.data.batch_id
        /\ batches[1].status = "processing"
        /\ batches[1].completed_count = req[r].payload.data.completed
        /\ batches[1].completed_count # BatchDefaults.completed_count

-----------------------------------------------------------------------------
\* table' is table with exactly one row added at the end
Appended(table, tableNext) ==
    /\ Len(tableNext) = Len(table) + 1
    /\ \A i \in 1..Len(table) : tableNext[i] = table[i]

\* every row of table is still in tableNext, at its place and unchanged
Kept(table, tableNext) ==
    /\ Len(tableNext) >= Len(table)
    /\ \A i \in 1..Len(table) : tableNext[i] = table[i]

(* C29: a billing.credits.low or billing.credits.exhausted step whose       *)
(* insert is not refused adds exactly one row, holding the event's payload, *)
(* to the billing alerts and leaves the rows already there unchanged, also  *)
(* when an equal row exists; billing.usage.report does the same to the      *)
(* usage reports; and no step of any request changes or removes a row of    *)
(* either table.                                                            *)
C29_BillingAppendOnly ==
    [][/\ \A r \in Reqs :
             /\ (/\ Handles(r, {"billing.credits.low",
                                "billing.credits.exhausted"})
                 /\ failures' = failures)
                => /\ Appended(billing_alerts, billing_alerts')
                   /\ Last(billing_alerts').raw_payload = req[r].payload
                   /\ usage_reports' = usage_reports
             /\ (Handles(r, {"billing.usage.report"}) /\ failures' = failures)
                => /\ Appended(usage_reports, usage_reports')
                   /\ Last(usage_reports').raw_payload = req[r].payload
                   /\ billing_alerts' = billing_alerts
       /\ Kept(billing_alerts, billing_alerts')
       /\ Kept(usage_reports, usage_reports')]_vars

\* the same billing.credits.low alert delivered twice: two equal rows
C29_Witness ==
    /\ Len(billing_alerts) = 2
    /\ billing_alerts[1] = billing_alerts[2]
    /\ billing_alerts[1].alert_type = "credits_low"
    /\ \A r \in Reqs : req[r].pc \in {"idle", "done"}

\* the request in slot r is one for which fetchAndStoreExtractions is called
FetchCalled(r) ==
    /\ req[r].eventType = "document.processing.completed"
    /\ req[r].payload.data.document_id # UNDEFINED
    /\ req[r].apiKey # NoKey
    /\ req[r].steps[5] = "entity_write"

(* C30: a request is inside fetchAndStoreExtractions, or has been, only if  *)
(* it handles document.processing.completed, its payload has a document     *)
(* identifier and an API key is configured; the extractions table changes   *)
(* only in the insert step of such a request, which adds the fetched rows   *)
(* and leaves the rows already there unchanged.                             *)
C30_ExtractionsOnlyOnCompletion ==
    /\ [](\A r \in Reqs :
             (\/ req[r].pc \in {"fetch", "select", "insert"}
              \/ Range(req[r].steps)
                    \cap ({"fetch", "select", "extractions"} \cup FetchFailures)
                 # {})
             => FetchCalled(r))
    /\ [][extractions' # extractions
          => \E r \in Reqs :
                /\ Steps(r)
                /\ req[r].pc = "insert"
                /\ FetchCalled(r)
                /\ Len(extractions') = Len(extractions) + req[r].fetched
                /\ Kept(extractions, extractions')]_vars

\* extractions stored for the completed document doc_1
C30_Witness ==
    \E r \in Reqs :
        /\ Len(extractions) = 1
        /\ FetchCalled(r)
        /\ Last(req[r].steps) = "extractions"
        /\ documents[extractions[1].document_id].doclayer_document_id = "doc_1"

-----------------------------------------------------------------------------
\* the status a terminal event writes, and the data field it writes to each
\* column of the entity row
TerminalWrites(eventType) ==
    CASE eventType = "document.processing.failed" ->
            [status |-> "failed",
             columns |-> [doclayer_document_id |-> "document_id",
                          error_message |-> "error",
                          error_type |-> "error_type"]]
      [] eventType = "batch.completed" ->
            [status |-> "completed",
             columns |-> [completed_count |-> "successful",
                          failed_count |-> "failed",
                          duration_seconds |-> "duration_seconds",
                          completed_at |-> "timestamp"]]
      [] eventType = "batch.failed" ->
            [status |-> "failed",
             columns |-> [error_message |-> "error",
                          error_type |-> "error_type",
                          completed_count |-> "completed"]]
      [] eventType = "workflow.completed" ->
            [status |-> "completed",
             columns |-> [result |-> "result",
                          duration_seconds |-> "duration_seconds",
                          completed_at |-> "timestamp"]]
      [] eventType = "workflow.failed" ->
            [status |-> "failed",
             columns |-> [error_message |-> "error",
                          error_type |-> "error_type"]]

\* the row is as an application of the terminal event left it: it holds the
\* event's payload, its status and its terminal fields
AlreadyApplied(row, eventType, payload) ==
    LET w == TerminalWrites(eventType)
    IN  /\ row.raw_payload = payload
        /\ row.status = w.status
        /\ \A c \in DOMAIN w.columns :
              payload.data[w.columns[c]] # UNDEFINED
              => row[c] = payload.data[w.columns[c]]

\* the request in slot r applies a terminal event to a row that an earlier
\* application of the same event left
Replays(r, eventType, table, col, id) ==
    /\ Handles(r, {eventType})
    /\ \E i \in Matching(table, col, req[r].payload.data[id]) :
          AlreadyApplied(table[i], eventType, req[r].payload)

\* the same rows in the same order, equal in every column but updated_at
SameButTimestamp(table, tableNext) ==
    /\ Len(tableNext) = Len(table)
    /\ \A i \in 1..Len(table) :
          \A c \in DOMAIN table[i] \ {"updated_at"} :
             tableNext[i][c] = table[i][c]

(* C31: a step that applies document.processing.failed, batch.completed,    *)
(* batch.failed, workflow.completed or workflow.failed to a row that an     *)
(* earlier application of the same event left (same payload, status and     *)
(* terminal fields) adds and removes no row and changes no column of any    *)
(* row of the entity table other than updated_at, and changes no other      *)
(* entity table.                                                            *)
C31_TerminalReplayIdempotent ==
    [][\A r \in Reqs :
          /\ Replays(r, "document.processing.failed", documents,
                     "doclayer_job_id", "job_id")
             => /\ SameButTimestamp(documents, documents')
                /\ UNCHANGED <<batches, workflows, extractions>>
          /\ \A e \in {"batch.completed", "batch.failed"} :
                Replays(r, e, batches, "batch_id", "batch_id")
                => /\ SameButTimestamp(batches, batches')
                   /\ UNCHANGED <<documents, workflows, extractions>>
          /\ \A e \in {"workflow.completed", "workflow.failed"} :
                Replays(r, e, workflows, "workflow_id", "workflow_id")
                => /\ SameButTimestamp(workflows, workflows')
                   /\ UNCHANGED <<documents, batches, extractions>>]_vars

\* batch.completed was delivered twice for the started batch and applied
\* both times: the one batch row is completed with the event's counters, and
\* its update timestamp is that of the second application
C31_Witness ==
    /\ deliveries = 2
    /\ \A r \in Reqs : req[r].pc \in {"idle", "done"}
    /\ Len(webhook_events) = 4
    /\ webhook_events[3].event_type = "batch.completed"
    /\ webhook_events[4] = webhook_events[3]
    /\ webhook_events[4].processed
    /\ Len(batches) = 1
    /\ batches[1].status = "completed"
    /\ batches[1].raw_payload = webhook_events[3].payload
    /\ batches[1].completed_count = "2"
    /\ batches[1].started_at = StartedBatch.started_at
    /\ batches[1].updated_at = 2

-----------------------------------------------------------------------------
(* C34: every row of the audit table has signature_valid = true, and every  *)
(* row a request adds has it, also when no secret is configured and the     *)
(* request skipped verification.                                            *)
C34_AuditAlwaysSignatureValid ==
    /\ [](\A i \in 1..Len(webhook_events) : webhook_events[i].signature_valid)
    /\ [][\A r \in Reqs :
             (Steps(r) /\ Len(webhook_events') > Len(webhook_events))
             => /\ req[r].pc = "log"
                /\ Last(webhook_events').signature_valid
                /\ Last(webhook_events').payload = req[r].payload]_vars

\* no secret is configured: a request that skipped verification has its
\* audit record, marked signature_valid
C34_Witness ==
    \E r \in Reqs :
        /\ webhookSecret = NoSecret
        /\ req[r].auditRow > 0
        /\ req[r].steps[2] = "skip_verify"
        /\ webhook_events[req[r].auditRow].payload = req[r].payload
        /\ webhook_events[req[r].auditRow].signature_valid

-----------------------------------------------------------------------------
\* the columns of doclayer_documents that handleProcessingCompleted does not
\* write, and the job identifier, which it writes as the conflict key
CompletedFrame ==
    DOMAIN DocumentDefaults
    \ {"doclayer_document_id", "status", "insights_count",
       "confidence_metrics", "raw_payload", "updated_at"}

(* C35: a document.processing.completed step for a job that has a row adds  *)
(* no row, leaves every other row unchanged and changes in the job's row    *)
(* only doclayer_document_id, status, insights_count, confidence_metrics,   *)
(* raw_payload and updated_at: error_message, error_type and checksum keep  *)
(* their values; when the write is not refused the row is in status         *)
(* completed afterwards.                                                    *)
C35_CompletedKeepsErrorColumns ==
    [][\A r \in Reqs :
          LET job == req[r].payload.data.job_id
          IN  (/\ Handles(r, {"document.processing.completed"})
               /\ JobRows(documents, job) # {})
              => /\ Len(documents') = Len(documents)
                 /\ {"error_message", "error_type", "checksum"}
                       \subseteq CompletedFrame
                 /\ \A i \in 1..Len(documents) :
                       IF i \in JobRows(documents, job)
                       THEN /\ \A c \in CompletedFrame :
                                  documents'[i][c] = documents[i][c]
                            /\ req'[r].status # 500
                               => /\ documents'[i].status = "completed"
                                  /\ documents'[i].raw_payload = req[r].payload
                       ELSE documents'[i] = documents[i]]_vars

\* a job that failed and then completed: its row is in status completed and
\* still carries the error message and error type of the failure
C35_Witness ==
    \E r \in Reqs :
        /\ req[r].eventType = "document.processing.completed"
        /\ req[r].status = 200
        /\ Len(documents) = 1
        /\ documents[1].doclayer_job_id = req[r].payload.data.job_id
        /\ documents[1].status = "completed"
        /\ documents[1].raw_payload = req[r].payload
        /\ documents[1].error_message \in Errors
        /\ documents[1].error_type = "et_1"

-----------------------------------------------------------------------------
(* C36: the insert step of a completed request whose fetch returned n > 0   *)
(* extractions and whose parent row was found, when the insert is not       *)
(* refused, appends n rows that reference the parent row and leaves the     *)
(* rows already stored unchanged, whether or not rows for that parent and   *)
(* those extractions are already stored.                                    *)
C36_ExtractionsNotDeduplicated ==
    [][\A r \in Reqs :
          (/\ Steps(r)
           /\ req[r].pc = "insert"
           /\ failures' = failures)
          => /\ req[r].fetched > 0
             /\ req[r].docRecord \in JobRows(documents,
                                             req[r].payload.data.job_id)
             /\ Len(extractions') = Len(extractions) + req[r].fetched
             /\ Kept(extractions, extractions')
             /\ \A k \in 1..req[r].fetched :
                   extractions'[Len(extractions) + k] =
                      [document_id |-> req[r].docRecord,
                       extraction_key |-> k]]_vars

\* one completion event delivered twice, each fetch returning one
\* extraction: two equal Extraction rows for the one Document Job
C36_Witness ==
    /\ Len(extractions) = 2
    /\ extractions[1] = extractions[2]
    /\ Len(documents) = 1
    /\ extractions[1].document_id = 1
    /\ Len(webhook_events) = 2
    /\ webhook_events[1].event_type = "document.processing.completed"
    /\ webhook_events[1].payload = documents[1].raw_payload
    /\ webhook_events[2].payload = documents[1].raw_payload
    /\ \E r \in Reqs :
          /\ req[r].pc = "done"
          /\ req[r].status = 200
          /\ req[r].fetched = 1
          /\ req[r].payload = documents[1].raw_payload

-----------------------------------------------------------------------------
\* the audit insert of the request in slot r was refused
AuditRefused(r) ==
    /\ Len(req[r].steps) >= 4
    /\ req[r].steps[4] = "audit_error"

(* C37: an audit insert that the storage refuses writes nothing and sends   *)
(* the request on to the routing switch with no response set; the routed    *)
(* document handler of such a request still writes the job's row; and the   *)
(* request is answered as routing decides, 500 when its handler threw and   *)
(* 200 otherwise.                                                           *)
C37_AuditErrorIgnored ==
    /\ [][\A r \in Reqs :
             /\ (Steps(r) /\ req[r].pc = "log" /\ failures' # failures)
                => /\ req'[r].pc = "route"
                   /\ req'[r].status = 0
                   /\ req'[r].auditRow = 0
                   /\ UNCHANGED tables
             /\ (/\ AuditRefused(r)
                 /\ Handles(r, DocumentEvents)
                 /\ ~WriteFails(r, "job_id"))
                => LET job == req[r].payload.data.job_id
                   IN  /\ JobRows(documents', job) # {}
                       /\ \A i \in JobRows(documents', job) :
                             /\ documents'[i].raw_payload = req[r].payload
                             /\ documents'[i].status
                                   = WrittenStatus(req[r].eventType)]_vars
    /\ [](\A r \in Reqs :
             (AuditRefused(r) /\ req[r].pc = "done")
             => req[r].status = IF Thrown(r) THEN 500 ELSE 200)

\* a document.processing.started request whose audit insert the storage
\* refused: the job's row is written, the request is answered 200 and the
\* audit table holds no record
C37_Witness ==
    \E r \in Reqs :
        /\ AuditRefused(r)
        /\ req[r].eventType = "document.processing.started"
        /\ failures = 1
        /\ req[r].status = 200
        /\ req[r].response.success
        /\ webhook_events = <<>>
        /\ Len(documents) = 1
        /\ documents[1].raw_payload = req[r].payload
        /\ documents[1].status = "processing"

-----------------------------------------------------------------------------
\* the postgres_changes callback of the mounted hook runs in this step
CallbackRuns(name) ==
    /\ hook.mounted = name
    /\ Len(hook'.channel) < Len(hook.channel)

(* C32: when the realtime callback of useDocumentStatus runs, it invokes    *)
(* onStatusChange only if the hook holds no document or the status of the   *)
(* update differs from the status of the document the hook holds (from a    *)
(* fetch or from an earlier update); onComplete only on such a change into  *)
(* completed, onError only on such a change into failed.                    *)
C32_CallbacksOnlyOnChange ==
    [][CallbackRuns("useDocumentStatus")
       => LET newDoc  == Head(hook.channel).new
              differs == \/ Len(hook.document) = 0
                         \/ hook.document[1].status # newDoc.status
          IN  /\ "onStatusChange" \in hook'.called => differs
              /\ "onComplete" \in hook'.called
                 => (differs /\ newDoc.status = "completed")
              /\ "onError" \in hook'.called
                 => (differs /\ newDoc.status = "failed")]_vars

(* C33: the documents list of a mounted useDocumentList never holds more    *)
(* entries than limit, and neither does the answer of a fetch in flight.    *)
C33_ListWithinLimit ==
    hook.mounted = "useDocumentList"
    => /\ Len(hook.documents) <= hook.limit
       /\ \A k \in 1..Len(hook.inflight) :
             Len(hook.inflight[k].data) <= hook.limit

\* an INSERT event was applied to a list that held limit entries already,
\* and the list holds limit entries, the inserted row first
C33_Witness ==
    /\ hook.mounted = "useDocumentList"
    /\ hook.called = {"INSERT"}
    /\ hook.before = hook.limit
    /\ Len(hook.documents) = hook.limit
    /\ Len(documents) > hook.limit
    /\ idOf(hook.documents[1]) = idOf(documents[Len(documents)])

-----------------------------------------------------------------------------
\* the tracking insert of upload-document runs in this step
TrackingInsertRuns ==
    /\ upload.pc = "insert"
    /\ upload'.pc = "done"

(* C38: while upload-document and the document events of the webhook        *)
(* receiver interleave, no two rows of doclayer_documents share a job       *)
(* identifier; the tracking insert leaves every row already stored          *)
(* unchanged, and stores nothing when a row holds its job identifier; and   *)
(* the step answers 200 with the job identifier, rejected or not.           *)
C38_TrackingInsertNeverOverwrites ==
    /\ [](UniqueKey(documents, "doclayer_job_id"))
    /\ [][TrackingInsertRuns
          => /\ Kept(documents, documents')
             /\ JobRows(documents, upload.job_id) # {}
                => /\ documents' = documents
                   /\ upload'.inserts = upload.inserts
             /\ JobRows(documents, upload.job_id) = {}
                => /\ Appended(documents, documents')
                   /\ Last(documents').doclayer_job_id = upload.job_id
             /\ upload'.status = 200
             /\ upload'.job_id = upload.job_id
             /\ upload'.job_id \in Ids]_vars

\* the webhook receiver wrote the job's row as completed before the tracking
\* insert ran: the insert was rejected, the row is the receiver's, and the
\* upload was answered 200 with the job identifier
C38_Witness ==
    /\ upload.pc = "done"
    /\ upload.status = 200
    /\ upload.job_id \in Ids
    /\ Last(upload.steps) = "insert_error"
    /\ upload.inserts = 0
    /\ JobRows(documents, upload.job_id) = {1}
    /\ documents[1].status = "completed"
    /\ documents[1].filename = NULL

-----------------------------------------------------------------------------
\* the request passes every guard of upload-document
GuardsPassed(request) ==
    /\ request.method = "POST"
    /\ request.authHeader
    /\ request.user
    /\ request.form
    /\ request.file
    /\ request.project_id
    /\ request.apiKey # NoKey

\* the upload request has called doclayer.ingest.upload, or is about to
UploadCalled ==
    \/ upload.pc \in {"upload", "insert"}
    \/ upload.uploads > 0
    \/ \E i \in 1..Len(upload.steps) :
          upload.steps[i] \in {"upload", "upload_error"}

(* C39: upload-document calls doclayer.ingest.upload and inserts its        *)
(* tracking row only for a request that passed every guard; a request is    *)
(* stopped by the first guard it fails, in the order Authorization header   *)
(* (401), user (401), file (400), project_id (400), API key (500); a        *)
(* request that did not pass every guard has made no upload and stored no   *)
(* row, and the documents table changes only in the tracking insert of a    *)
(* request that passed them.                                                *)
C39_GuardsBeforeUpload ==
    /\ [](LET q == upload.request
          IN  /\ (UploadCalled \/ upload.inserts > 0) => GuardsPassed(q)
              /\ ~GuardsPassed(q) => (upload.uploads = 0 /\ upload.inserts = 0)
              /\ (upload.pc = "done" /\ q.method = "POST")
                 => /\ ~q.authHeader
                       => (/\ upload.status = 401
                           /\ upload.error = "Missing authorization header")
                    /\ (q.authHeader /\ ~q.user)
                       => (upload.status = 401 /\ upload.error = "Unauthorized")
                    /\ (q.user /\ q.form /\ ~q.file)
                       => (/\ upload.status = 400
                           /\ upload.error = "No file provided")
                    /\ (q.user /\ q.file /\ ~q.project_id)
                       => (/\ upload.status = 400
                           /\ upload.error = "project_id is required")
                    /\ (q.user /\ q.file /\ q.project_id /\ q.apiKey = NoKey)
                       => (/\ upload.status = 500
                           /\ upload.error = "Doclayer API key not configured"))
    /\ [][/\ UNCHANGED <<batches, workflows, billing_alerts, usage_reports,
                         extractions, webhook_events>>
          /\ documents' # documents
             => (TrackingInsertRuns /\ GuardsPassed(upload.request))]_vars

\* an authenticated request with neither a file nor a configured API key:
\* stopped at the file guard with 400, nothing uploaded, nothing stored
C39_Witness ==
    /\ upload.pc = "done"
    /\ upload.request.user
    /\ ~upload.request.file
    /\ upload.request.apiKey = NoKey
    /\ upload.status = 400
    /\ upload.steps = <<"authorization", "getUser", "formData", "file">>
    /\ upload.uploads = 0
    /\ upload.inserts = 0
    /\ documents = <<>>

====
